---- MODULE Spec2Model ----
(***************************************************************************)
(* MIDIRouter: the router/dispatcher (router.go), the rule evaluation      *)
(* (rule.go) and the MIDI framing (splitMIDIData), as a state machine.     *)
(*                                                                         *)
(* Time is counted in ticks of 10 ms.  A byte is an integer 0..255, a      *)
(* packet the sequence of its bytes (1-based: Go's data[i] is pkt[i+1]).   *)
(***************************************************************************)
EXTENDS Integers, Sequences, FiniteSets, TLC

VARIABLES
    now,                \* the wall clock, in ticks
    env,                \* the run's last tick, number of buffers and the buffers the driver delivers (fixed by Init)
    defaultPassThrough, \* MIDIRouter.defaultPassThrough
    sendLimit,          \* MIDIRouter.sendLimit, in ticks
    lastMIDIMsg,        \* MIDIRouter.lastMIDIMsg
    rules,              \* MIDIRouter.rules: configuration and state of each rule
    pending,            \* messages of the received buffer not yet dispatched
    ppc,                \* position of the driver's callback thread (onPacket)
    pcur,               \* what the callback thread holds: packet in Send, noise to schedule
    tasks,              \* the goroutines of scheduleNoisePacket
    cleanup,            \* position of main's Cleanup call
    wire,               \* history: what was written to the destination port
    dispatches,         \* history: the handleSinglePacket calls
    received,           \* number of buffers received so far
    buf,                \* framing: the buffer given to splitMIDIData
    split,              \* framing: what splitMIDIData returned for buf
    eval                \* one rule: what Rule.Match returned for buf

vars == <<now, env, defaultPassThrough, sendLimit, lastMIDIMsg, rules, pending,
          ppc, pcur, tasks, cleanup, wire, dispatches, received, buf, split, eval>>

(***************************************************************************)
(* Bounds of the model.                                                    *)
(***************************************************************************)
MaxTime == 2        \* ticks of the concurrent specification
MaxTimeSeq == 12    \* ticks of the sequential specification
MaxPackets == 2     \* buffers received in the concurrent specification
MaxPacketsSeq == 3  \* buffers received in the sequential specification
MaxTasks == 2       \* noise goroutines alive or finished
MaxBufLen == 5      \* longest buffer given to splitMIDIData
MaxFrameLen == 4    \* longest buffer the loop of splitMIDIData is stepped through
MaxPacketsOnPacket == 3   \* buffers delivered to onPacket on its own
MaxTimeOnPacket == 2      \* ticks within which they are delivered
MaxTimeMatch == 2   \* ticks of the rule evaluation on its own

(***************************************************************************)
(* Bytes.                                                                  *)
(***************************************************************************)
\* x & 0xF0, x & 0x0F, x & 0x7F on bytes and uint16
HighNibble(x) == (x % 256) \div 16
LowNibble(x) == x % 16
Low7(x) == x % 128

RECURSIVE BitOr(_, _)
BitOr(a, b) ==
    IF a = 0 THEN b
    ELSE IF b = 0 THEN a
    ELSE (IF a % 2 = 1 \/ b % 2 = 1 THEN 1 ELSE 0) + 2 * BitOr(a \div 2, b \div 2)

\* byte((msgType << 4) | channel)
StatusByte(msgType, channel) == BitOr((msgType * 16) % 256, channel % 256) % 256

(***************************************************************************)
(* Framing: midiMessageLength and splitMIDIData.                           *)
(***************************************************************************)
\* variant: a table without the three-byte Song Position Pointer
midiMessageLengthNoSongPosition(status) ==
    LET hi == HighNibble(status) * 16 IN
    IF hi \in {128, 144, 160, 176, 224} THEN 3
    ELSE IF hi \in {192, 208} THEN 2
    ELSE IF hi = 240 THEN (IF status \in {241, 243} THEN 2 ELSE 1)
    ELSE 1

\* variant: a table with no length for a data byte
midiMessageLengthZeroForData(status) ==
    LET hi == HighNibble(status) * 16 IN
    IF hi \in {128, 144, 160, 176, 224} THEN 3
    ELSE IF hi \in {192, 208} THEN 2
    ELSE IF hi = 240 THEN
        (IF status \in {241, 243} THEN 2 ELSE IF status = 242 THEN 3 ELSE 1)
    ELSE 0

midiMessageLength(status) ==
    LET hi == HighNibble(status) * 16 IN
    IF hi \in {128, 144, 160, 176, 224} THEN 3
    ELSE IF hi \in {192, 208} THEN 2
    ELSE IF hi = 240 THEN
        (IF status \in {241, 243} THEN 2 ELSE IF status = 242 THEN 3 ELSE 1)
    ELSE 1

\* The loop of splitMIDIData from Go index i on; reads collects every Go index
\* of data that the loop reads (data[i] and the slice data[i:i+length]).
RECURSIVE splitLoop(_, _, _, _)
splitLoop(data, i, messages, reads) ==
    IF ~(i < Len(data)) THEN [messages |-> messages, reads |-> reads, stop |-> i]
    ELSE
        LET status == data[i + 1]
            length == midiMessageLength(status)
        IN  IF i + length > Len(data)
            THEN [messages |-> messages, reads |-> reads \cup {i}, stop |-> i]
            ELSE splitLoop(data, i + length,
                           Append(messages, SubSeq(data, i + 1, i + length)),
                           reads \cup (i .. (i + length - 1)))

splitMIDIData(data) == splitLoop(data, 0, <<>>, {})

(***************************************************************************)
(* Time.  A time.Time that was never set is the zero time, far in the      *)
(* past: time.Since of it exceeds every configured duration.               *)
(***************************************************************************)
ZeroTime == -1000000

Since(ts, t) == t - ts

MsPerTick == 10

\* time.Sleep(d) returns after at least d: the first tick at or after d ms
SleepTicks(delayMs) == (delayMs + MsPerTick - 1) \div MsPerTick

(***************************************************************************)
(* Enumerations of package rule.                                           *)
(***************************************************************************)
RuleMatchResultNoMatch == 0
RuleMatchResultMatchInject == 1
RuleMatchResultMatchNoInject == 2

TransformModeNone == 0
TransformModeLinear == 1
TransformModeLinearDrop == 2
TransformModeNoise == 3
TransformModePreventRunStatus == 4

(***************************************************************************)
(* Package filter and the filter/generator variants.  FilterMsgType is the *)
(* high nibble of the status byte, FilterChannel the low nibble; both have *)
(* a wildcard.                                                             *)
(***************************************************************************)
FilterMsgTypeNoteOff == 8
FilterMsgTypeNoteOn == 9
FilterMsgTypeAftertouch == 10
FilterMsgTypeControlChange == 11
FilterMsgTypeProgramChange == 12
FilterMsgTypeChannelPressure == 13
FilterMsgTypePitchWheel == 14
FilterMsgTypeSysEx == 15
FilterMsgTypeAny == 16
FilterMsgTypeUnknown == 17
FilterChannelAny == 16

\* FilterInterface.QuickMatch: type and channel, exact or wildcard
QuickMatch(f, msgType, channel) ==
    /\ f.msgType \in {FilterMsgTypeAny, msgType}
    /\ f.channel \in {FilterChannelAny, channel}

\* FilterInterface.Match: the first data byte selects (a controller number,
\* -1 for any), the last data byte is the value; a filter that captures no
\* value answers MatchNoValue.
FilterMatch(f, packet) ==
    IF Len(packet) < 2 THEN [result |-> "NoMatch", value |-> 0]
    ELSE IF f.number # -1 /\ packet[2] # f.number
        THEN [result |-> "NoMatch", value |-> 0]
    ELSE IF ~f.capture THEN [result |-> "MatchNoValue", value |-> 0]
    ELSE [result |-> "Match", value |-> Low7(packet[Len(packet)])]

\* GeneratorInterface.Generate: status byte from type and channel, the data
\* bytes 7-bit masked; err is the generator's failure.
Generate(g, packet, value, err) ==
    IF err THEN [packet |-> <<>>, err |-> TRUE]
    ELSE IF g.msgType \in {FilterMsgTypeProgramChange, FilterMsgTypeChannelPressure}
        THEN [packet |-> <<StatusByte(g.msgType, g.channel), Low7(value)>>, err |-> FALSE]
    ELSE [packet |-> <<StatusByte(g.msgType, g.channel), Low7(g.number), Low7(value)>>,
          err |-> FALSE]

(***************************************************************************)
(* Package rule.                                                           *)
(***************************************************************************)
\* variant: a rule whose last value is 0, seen at the time it was built
NewRuleZeroed(f, t, dd, ddTimeout, g) ==
    [filter |-> f, transform |-> t, dropDuplicates |-> dd,
     dropDuplicatesTimeout |-> ddTimeout, generator |-> g,
     lastValue |-> 0, lastValueTs |-> 0,
     lastMsgType |-> FilterMsgTypeUnknown, lastChannel |-> FilterChannelAny,
     lastMsgCount |-> 0]

\* rule.New followed by the setters LoadConfig calls
NewRule(f, t, dd, ddTimeout, g) ==
    [filter |-> f, transform |-> t, dropDuplicates |-> dd,
     dropDuplicatesTimeout |-> ddTimeout, generator |-> g,
     lastValue |-> 65535, lastValueTs |-> ZeroTime,
     lastMsgType |-> FilterMsgTypeUnknown, lastChannel |-> FilterChannelAny,
     lastMsgCount |-> 0]

\* the odd part of n > 0
RECURSIVE OddPart(_)
OddPart(n) == IF n % 2 = 0 THEN OddPart(n \div 2) ELSE n

\* float64(dt) / float64(df) is the exact quotient: dt / df is a dyadic number
ExactRatio(dt, df) == dt % OddPart(df) = 0

\* variant: a map that takes the input range as fromMax - fromMin + 1 steps
LinearMapHalfOpen(t, value, in) ==
    t.toMin + ((t.toMax - t.toMin) * (value - t.fromMin)) \div (t.fromMax - t.fromMin + 1)

\* uint16(a*float64(value) + b) with a = (toMax-toMin)/(fromMax-fromMin) and
\* b = toMin - a*fromMin, the bounds being uint32 and a, b float64.
\*  - The conversion to uint16 truncates.  An exact result that is no integer
\*    lies further from the next integer than the float64 error reaches.
\*  - An exact result that is an integer q is computed as q when a is exact;
\*    when it is not, the rounding of a, of the products and of the sum (fused
\*    or not, as the build has it) gives q or a value just below it, which
\*    truncates to q - 1: in.fe tells which.  The value 0 with fromMin = 0
\*    gives b = toMin with no error.  A result in (-1, 0] gives 0.
\*  - fromMax = fromMin divides by zero (Inf or NaN); fromMax < fromMin and
\*    toMax < toMin wrap around in uint32; a result below 0 or above 65535 is
\*    outside uint16.  The conversion of such a value is implementation
\*    specific: in.conv is what it yields.
LinearMap(t, value, in) ==
    LET df == t.fromMax - t.fromMin
        dt == t.toMax - t.toMin
        num == dt * (value - t.fromMin) + t.toMin * df
        q == num \div df
    IN  IF df <= 0 \/ dt < 0 THEN in.conv
        ELSE IF num < 0 THEN (IF -num < df THEN 0 ELSE in.conv)
        ELSE IF q > 65535 THEN in.conv
        ELSE IF /\ num % df = 0
                /\ q > 0
                /\ ~ExactRatio(dt, df)
                /\ ~(value = 0 /\ t.fromMin = 0)
                /\ in.fe
             THEN q - 1
        ELSE q

\* rand.Intn(n) for n > 0, r the draw
Intn(n, r) == r % n

\* variant: a noise value drawn from 0 .. MaxValue
generateNoisePacketFromZero(r, packet, value, rv) ==
    LET ns == r.transform.noiseSettings
        randVal == IF ns.MaxValue > ns.MinValue
                   THEN Intn((ns.MaxValue + 1) % 256, rv)
                   ELSE ns.MinValue
        statusByte == StatusByte(ns.MsgType, ns.Channel)
    IN  IF ns.MsgType \in {FilterMsgTypeNoteOn, FilterMsgTypeNoteOff,
                           FilterMsgTypeAftertouch, FilterMsgTypeControlChange,
                           FilterMsgTypePitchWheel}
        THEN <<statusByte, Low7(value), randVal>>
        ELSE <<statusByte, randVal>>

\* generateNoisePacket; rv is the random draw
generateNoisePacket(r, packet, value, rv) ==
    LET ns == r.transform.noiseSettings
        randVal == IF ns.MaxValue > ns.MinValue
                   THEN (ns.MinValue + Intn((ns.MaxValue - ns.MinValue + 1) % 256, rv)) % 256
                   ELSE ns.MinValue
        statusByte == StatusByte(ns.MsgType, ns.Channel)
    IN  IF ns.MsgType \in {FilterMsgTypeNoteOn, FilterMsgTypeNoteOff,
                           FilterMsgTypeAftertouch, FilterMsgTypeControlChange,
                           FilterMsgTypePitchWheel}
        THEN <<statusByte, Low7(value), randVal>>
        ELSE <<statusByte, randVal>>

\* the delay of the noise packet, in ms; rd is the random draw
noiseDelay(r, rd) ==
    LET ns == r.transform.noiseSettings IN
    IF ns.DelayMsMax > ns.DelayMsMin
    THEN (ns.DelayMsMin + Intn((ns.DelayMsMax - ns.DelayMsMin + 1) % 65536, rd)) % 65536
    ELSE ns.DelayMsMin

\* variant: a duplicate check whose window includes the timeout itself
isDuplicateInclusive(r, transformedValue, t) ==
    /\ r.dropDuplicates
    /\ r.lastValue = transformedValue
    /\ Since(r.lastValueTs, t) <= r.dropDuplicatesTimeout

\* the duplicate check of Rule.Match
isDuplicate(r, transformedValue, t) ==
    /\ r.dropDuplicates
    /\ r.lastValue = transformedValue
    /\ Since(r.lastValueTs, t) < r.dropDuplicatesTimeout

\* variant: bookkeeping that also forgets the last value
preventRunningStatusForgets(r, msgType, channel) ==
    [r EXCEPT !.lastMsgCount = @ + 1,
              !.lastMsgType = msgType, !.lastChannel = channel,
              !.lastValue = 65535]

\* Rule.preventRunningStatus: bookkeeping only
preventRunningStatus(r, msgType, channel) ==
    [r EXCEPT !.lastMsgCount = @ + 1,
              !.lastMsgType = msgType, !.lastChannel = channel]

NoNoise == [present |-> FALSE, packet |-> <<>>, delayMs |-> 0]

MatchResult(result, mainPacket, noise) ==
    [Result |-> result, MainPacket |-> mainPacket, NoisePacket |-> noise.packet,
     HasNoise |-> noise.present, NoiseDelayMs |-> noise.delayMs]

\* One evaluation of Rule.Match: the rule after it, the MatchResult, the calls
\* made to the filter and the generator, the return statement taken and the
\* transformed value (-1 when there is none).
Evaluation(r, res, calls, why, value) ==
    [rule |-> r, res |-> res, calls |-> calls, why |-> why, value |-> value]

\* variant: a generator failure that consumes the message
generatorFailedDrops(r, packet, v) ==
    Evaluation(r, MatchResult(RuleMatchResultMatchNoInject, packet, NoNoise),
               <<"QuickMatch", "Match", "Generate">>, "generatorError", v)

\* variant: a generator failure that still returns the noise packet
generatorFailedWithNoise(r, packet, v) ==
    Evaluation(r, MatchResult(RuleMatchResultMatchInject, packet,
                              IF r.transform.mode = TransformModeNoise
                              THEN [present |-> TRUE,
                                    packet |-> generateNoisePacket(r, packet, v, 0),
                                    delayMs |-> noiseDelay(r, 0)]
                              ELSE NoNoise),
               <<"QuickMatch", "Match", "Generate">>, "generatorError", v)

\* what Rule.Match returns when the generator fails: the original packet, to
\* be injected, and no noise
generatorFailed(r, packet, v) ==
    Evaluation(r, MatchResult(RuleMatchResultMatchInject, packet, NoNoise),
               <<"QuickMatch", "Match", "Generate">>, "generatorError", v)

\* variant: a duplicate drop that starts the window anew
duplicateDroppedRefreshes(r, packet, v, t) ==
    Evaluation([r EXCEPT !.lastValueTs = t],
               MatchResult(RuleMatchResultMatchNoInject, packet, NoNoise),
               <<"QuickMatch", "Match">>, "duplicate", v)

\* what Rule.Match returns at time t for a duplicate: the rule as it was
duplicateDropped(r, packet, v, t) ==
    Evaluation(r, MatchResult(RuleMatchResultMatchNoInject, packet, NoNoise),
               <<"QuickMatch", "Match">>, "duplicate", v)

\* variant: bounds that let the value just above the upper one through
outOfBoundsLax(v, lo, hi) == v > hi + 1 \/ v < lo

\* the bounds checks of LinearDrop: (uint32(v) > hi) || (uint32(v) < lo)
outOfBounds(v, lo, hi) == v > hi \/ v < lo

\* what Rule.Match does once the filter answered Match with value
matchValue(r, packet, value, t, in) ==
    LET mode == r.transform.mode
        msgType == HighNibble(packet[1])
        channel == LowNibble(packet[1])
        inDropped == /\ mode = TransformModeLinearDrop
                     /\ outOfBounds(value, r.transform.fromMin, r.transform.fromMax)
        v == IF mode \in {TransformModeLinear, TransformModeLinearDrop, TransformModeNoise}
                  /\ ~inDropped
             THEN LinearMap(r.transform, value, in) ELSE value
        outDropped == /\ mode = TransformModeLinearDrop
                      /\ ~inDropped
                      /\ outOfBounds(v, r.transform.toMin, r.transform.toMax)
        noise == IF mode = TransformModeNoise
                 THEN [present |-> TRUE,
                       packet |-> generateNoisePacket(r, packet, value, in.rv),
                       delayMs |-> noiseDelay(r, in.rd)]
                 ELSE NoNoise
    IN  IF inDropped \/ outDropped
        THEN Evaluation(r, MatchResult(RuleMatchResultNoMatch, packet, NoNoise),
                        <<"QuickMatch", "Match">>, "transformDrop", -1)
        ELSE IF isDuplicate(r, v, t)
        THEN duplicateDropped(r, packet, v, t)
        ELSE
            LET r1 == [r EXCEPT !.lastValue = v, !.lastValueTs = t]
                gen == Generate(r.generator, packet, v, in.genErr)
            IN  IF gen.err
                THEN generatorFailed(r1, packet, v)
                ELSE Evaluation(IF mode = TransformModePreventRunStatus
                                THEN preventRunningStatus(r1, msgType, channel) ELSE r1,
                                MatchResult(RuleMatchResultMatchInject, gen.packet, noise),
                                <<"QuickMatch", "Match", "Generate">>, "generated", v)

\* variant: MatchNoValue goes on to output, with the packet as it came
matchNoValueInjects(r, packet) ==
    Evaluation(r, MatchResult(RuleMatchResultMatchInject, packet, NoNoise),
               <<"QuickMatch", "Match">>, "noValue", -1)

\* what Rule.Match returns for the filter's answer MatchNoValue
matchNoValue(r, packet) ==
    Evaluation(r, MatchResult(RuleMatchResultMatchNoInject, packet, NoNoise),
               <<"QuickMatch", "Match">>, "noValue", -1)

\* variant: a Match that asks the filter's Match without QuickMatch before it
MatchWithoutQuick(r, packet, t, in) ==
    LET noMatch(calls, why) ==
            Evaluation(r, MatchResult(RuleMatchResultNoMatch, packet, NoNoise),
                       calls, why, -1)
        fm == FilterMatch(r.filter, packet)
    IN  IF fm.result = "NoMatch" THEN noMatch(<<"Match">>, "filter")
        ELSE IF fm.result = "MatchNoValue" THEN matchNoValue(r, packet)
        ELSE matchValue(r, packet, fm.value, t, in)

\* Rule.Match at time t; in holds the generator's failure and the random draws
Match(r, packet, t, in) ==
    LET msgType == HighNibble(packet[1])
        channel == LowNibble(packet[1])
        noMatch(calls, why) ==
            Evaluation(r, MatchResult(RuleMatchResultNoMatch, packet, NoNoise),
                       calls, why, -1)
    IN  IF ~QuickMatch(r.filter, msgType, channel) THEN noMatch(<<"QuickMatch">>, "quick")
        ELSE LET fm == FilterMatch(r.filter, packet) IN
            IF fm.result = "NoMatch" THEN noMatch(<<"QuickMatch", "Match">>, "filter")
            ELSE IF fm.result = "MatchNoValue" THEN matchNoValue(r, packet)
            ELSE IF fm.result # "Match" THEN noMatch(<<"QuickMatch", "Match">>, "filter")
            ELSE matchValue(r, packet, fm.value, t, in)

(***************************************************************************)
(* Package router.                                                         *)
(***************************************************************************)
NumChannels == 16

\* variant: a limiter that lets a packet pass exactly sendLimit after the last
withinSendLimitStrict(last, t, limit) == Since(last, t) < limit

\* the rate-limit check: time.Since(relay.lastMIDIMsg) <= relay.sendLimit
withinSendLimit(last, t, limit) == Since(last, t) <= limit

\* variant: a rule loop that ends at MatchInject only
loopEndsOnInject(result) == result = RuleMatchResultMatchInject

\* the rule loop of handleSinglePacket ends at MatchInject and MatchNoInject
loopEnds(result) ==
    result \in {RuleMatchResultMatchInject, RuleMatchResultMatchNoInject}

\* the rule loop of handleSinglePacket from rule i on (rules are 1-based here)
RECURSIVE ruleLoop(_, _, _, _, _, _)
ruleLoop(rs, i, packet, t, in, log) ==
    IF i > Len(rs)
    THEN [rules |-> rs, log |-> log, idx |-> 0,
          res |-> MatchResult(RuleMatchResultNoMatch, packet, NoNoise)]
    ELSE IF Len(packet) = 0 THEN ruleLoop(rs, i + 1, packet, t, in, log)
    ELSE
        LET ev == Match(rs[i], packet, t, in)
            rs1 == [rs EXCEPT ![i] = ev.rule]
            log1 == Append(log, [idx |-> i, Result |-> ev.res.Result, why |-> ev.why,
                                 value |-> ev.value, calls |-> ev.calls])
        IN  IF loopEnds(ev.res.Result)
            THEN [rules |-> rs1, log |-> log1, idx |-> i, res |-> ev.res]
            ELSE ruleLoop(rs1, i + 1, packet, t, in, log1)

\* variant: a panic sequence that resets the controllers first
panicPacketResetFirst(k) ==
    <<BitOr(176, (k \div 2) % 256), IF k % 2 = 0 THEN 121 ELSE 123, 0>>

\* the k-th packet of sendAllNotesOffAndResetControllers, k in 0 .. 2*NumChannels-1
panicPacket(k) ==
    <<BitOr(176, (k \div 2) % 256), IF k % 2 = 0 THEN 123 ELSE 121, 0>>

\* variant: an onPacket that splits every buffer that is not SysEx
onPacketMessagesAlwaysSplit(data) ==
    IF Len(data) > 0 /\ data[1] = 240 THEN <<data>>
    ELSE splitMIDIData(data).messages

\* the messages onPacket dispatches for a received buffer
onPacketMessages(data) ==
    IF Len(data) > 0 /\ data[1] = 240 THEN <<data>>
    ELSE IF Len(data) > 3 THEN splitMIDIData(data).messages
    ELSE <<data>>

\* A write to the destination port (the start of a Send): who wrote what and
\* when, the lastMIDIMsg the writer's rate-limit check read (checked: whether
\* the Send was guarded by a check), whether the writer has since assigned
\* lastMIDIMsg, and for a primary packet the rule and value it came from.
WireEntry(kind, data, by, id, checked, msg, rule, value) ==
    [kind |-> kind, data |-> data, t |-> now, seen |-> lastMIDIMsg, checked |-> checked,
     updated |-> FALSE, by |-> by, id |-> id, msg |-> msg, rule |-> rule, value |-> value,
     failed |-> FALSE]

\* Packet.Send of the transport: the call, and whether it returned an error;
\* the callers drop what Send returns
Send(entry, failed) == [entry EXCEPT !.failed = failed]

\* The Sends of one call of sendAllNotesOffAndResetControllers touch nothing
\* but the port.  The first is a step of its own, so that the call overlaps
\* with what the other threads do; the others follow in one step.
PanicEntry(k, by) == WireEntry("panic", panicPacket(k), by, 0, FALSE, 0, 0, -1)

PanicRest(by) == [k \in 1 .. (2 * NumChannels - 1) |-> PanicEntry(k, by)]

NoCur == [packet |-> <<>>, w |-> 0, noise |-> NoNoise]

NoInputs == [genErr |-> FALSE, rv |-> 0, rd |-> 0, fe |-> FALSE, conv |-> 0]

\* One call of handleSinglePacket: the message and when it was handled, the
\* rules as they were before it, the evaluations of the rule loop, the result
\* that ended the loop with its main packet and rule (idx, 0 for none),
\* whether the rate limiter dropped the packet, and the inputs of the call.
Dispatch(packet, log, result, mainPacket, idx, limited, passthrough, in) ==
    [packet |-> packet, t |-> now, before |-> rules, log |-> log, Result |-> result,
     MainPacket |-> mainPacket, idx |-> idx, limited |-> limited,
     passthrough |-> passthrough, in |-> in]

Alive == cleanup # "done"

\* time passes
Tick ==
    /\ Alive
    /\ now < env.horizon
    /\ now' = now + 1
    /\ UNCHANGED <<env, defaultPassThrough, sendLimit, lastMIDIMsg, rules, pending, ppc,
                   pcur, tasks, cleanup, wire, dispatches, received,
                   buf, split, eval>>

\* onPacket: the driver delivers a buffer, gap ticks after the callback
\* returned; it is split into messages
OnPacket ==
    /\ Alive
    /\ ppc = "idle"
    /\ pending = <<>>
    /\ received < env.packets
    /\ \E data \in env.buffers : pending' = onPacketMessages(data)
    /\ \E gap \in env.gaps : now + gap <= env.horizon /\ now' = now + gap
    /\ received' = received + 1
    /\ UNCHANGED <<env, defaultPassThrough, sendLimit, lastMIDIMsg, rules, ppc, pcur,
                   tasks, cleanup, wire, dispatches, buf, split, eval>>

\* variant: a loop that takes the messages of a buffer from the end
nextMessageLast(messages) == messages[Len(messages)]

\* onPacket's loop over the messages of a buffer: for _, msg := range messages
nextMessage(messages) == Head(messages)

\* variant: a passthrough that runs the rule loop and sends what it made
DispatchPassthroughEvaluates ==
    /\ Alive
    /\ ppc = "idle"
    /\ pending # <<>>
    /\ defaultPassThrough
    /\ LET packet == nextMessage(pending)
           limited == withinSendLimit(lastMIDIMsg, now, sendLimit)
           ev == ruleLoop(rules, 1, packet, now, NoInputs, <<>>)
       IN  /\ pending' = Tail(pending)
           /\ rules' = ev.rules
           /\ dispatches' = Append(dispatches,
                                   Dispatch(packet, ev.log, ev.res.Result,
                                            ev.res.MainPacket, ev.idx, limited, TRUE,
                                            NoInputs))
           /\ IF limited
              THEN UNCHANGED <<ppc, pcur, wire>>
              ELSE /\ wire' = Append(wire, WireEntry("passthrough", ev.res.MainPacket,
                                                     "cb", 0, TRUE, Len(dispatches) + 1,
                                                     0, -1))
                   /\ ppc' = "send"
                   /\ pcur' = [packet |-> packet, w |-> Len(wire) + 1, noise |-> NoNoise]
    /\ UNCHANGED <<now, env, defaultPassThrough, sendLimit, lastMIDIMsg, tasks,
                   cleanup, received, buf, split, eval>>

\* handleSinglePacket in passthrough mode, up to the call of Send
DispatchPassthrough ==
    /\ Alive
    /\ ppc = "idle"
    /\ pending # <<>>
    /\ defaultPassThrough
    /\ \E sf \in env.sendFails :
       LET packet == nextMessage(pending)
           limited == withinSendLimit(lastMIDIMsg, now, sendLimit)
       IN  /\ pending' = Tail(pending)
           /\ dispatches' = Append(dispatches,
                                   Dispatch(packet, <<>>, RuleMatchResultNoMatch, packet,
                                            0, limited, TRUE, NoInputs))
           /\ IF limited
              THEN UNCHANGED <<ppc, pcur, wire>>
              ELSE /\ wire' = Append(wire,
                                     Send(WireEntry("passthrough", packet, "cb", 0, TRUE,
                                                    Len(dispatches) + 1, 0, -1), sf))
                   /\ ppc' = "send"
                   /\ pcur' = [packet |-> packet, w |-> Len(wire) + 1, noise |-> NoNoise]
    /\ UNCHANGED <<now, env, defaultPassThrough, sendLimit, lastMIDIMsg, rules, tasks,
                   cleanup, received, buf, split, eval>>

\* variant: a callback that schedules the noise packet of a main packet the
\* limiter dropped
DispatchRulesNoiseAfterDrop ==
    /\ Alive
    /\ ppc = "idle"
    /\ pending # <<>>
    /\ ~defaultPassThrough
    /\ \E genErr \in env.genErrs, rv \in env.rvs, rd \in env.rds, fe \in env.fes,
          conv \in env.convs, sf \in env.sendFails :
        LET packet == nextMessage(pending)
            ev == ruleLoop(rules, 1, packet, now,
                           [genErr |-> genErr, rv |-> rv, rd |-> rd, fe |-> fe,
                            conv |-> conv], <<>>)
            inject == ev.res.Result = RuleMatchResultMatchInject
            limited == inject /\ withinSendLimit(lastMIDIMsg, now, sendLimit)
        IN  /\ pending' = Tail(pending)
            /\ rules' = ev.rules
            /\ dispatches' = Append(dispatches,
                                    Dispatch(packet, ev.log, ev.res.Result,
                                             ev.res.MainPacket, ev.idx, limited, FALSE,
                                             [genErr |-> genErr, rv |-> rv, rd |-> rd, fe |-> fe,
                            conv |-> conv]))
            /\ IF inject /\ ~limited
               THEN /\ wire' = Append(wire,
                                      Send(WireEntry("primary", ev.res.MainPacket, "cb", 0,
                                                     TRUE, Len(dispatches) + 1, ev.idx,
                                                     ev.log[Len(ev.log)].value), sf))
                    /\ ppc' = "send"
                    /\ pcur' = [packet |-> ev.res.MainPacket, w |-> Len(wire) + 1,
                                noise |-> [present |-> ev.res.HasNoise,
                                           packet |-> ev.res.NoisePacket,
                                           delayMs |-> ev.res.NoiseDelayMs]]
               ELSE IF limited /\ ev.res.HasNoise
               THEN /\ ppc' = "sched"
                    /\ pcur' = [packet |-> ev.res.MainPacket, w |-> 0,
                                noise |-> [present |-> TRUE,
                                           packet |-> ev.res.NoisePacket,
                                           delayMs |-> ev.res.NoiseDelayMs]]
                    /\ UNCHANGED wire
               ELSE UNCHANGED <<ppc, pcur, wire>>
    /\ UNCHANGED <<now, env, defaultPassThrough, sendLimit, lastMIDIMsg, tasks, cleanup,
                   received, buf, split, eval>>

\* handleSinglePacket with rules, up to the call of Send for the main packet
DispatchRules ==
    /\ Alive
    /\ ppc = "idle"
    /\ pending # <<>>
    /\ ~defaultPassThrough
    /\ \E genErr \in env.genErrs, rv \in env.rvs, rd \in env.rds, fe \in env.fes,
          conv \in env.convs, sf \in env.sendFails :
        LET packet == nextMessage(pending)
            ev == ruleLoop(rules, 1, packet, now,
                           [genErr |-> genErr, rv |-> rv, rd |-> rd, fe |-> fe,
                            conv |-> conv], <<>>)
            inject == ev.res.Result = RuleMatchResultMatchInject
            limited == inject /\ withinSendLimit(lastMIDIMsg, now, sendLimit)
        IN  /\ pending' = Tail(pending)
            /\ rules' = ev.rules
            /\ dispatches' = Append(dispatches,
                                    Dispatch(packet, ev.log, ev.res.Result,
                                             ev.res.MainPacket, ev.idx, limited, FALSE,
                                             [genErr |-> genErr, rv |-> rv, rd |-> rd, fe |-> fe,
                            conv |-> conv]))
            /\ IF inject /\ ~limited
               THEN /\ wire' = Append(wire,
                                      Send(WireEntry("primary", ev.res.MainPacket, "cb", 0,
                                                     TRUE, Len(dispatches) + 1, ev.idx,
                                                     ev.log[Len(ev.log)].value), sf))
                    /\ ppc' = "send"
                    /\ pcur' = [packet |-> ev.res.MainPacket, w |-> Len(wire) + 1,
                                noise |-> [present |-> ev.res.HasNoise,
                                           packet |-> ev.res.NoisePacket,
                                           delayMs |-> ev.res.NoiseDelayMs]]
               ELSE UNCHANGED <<ppc, pcur, wire>>
    /\ UNCHANGED <<now, env, defaultPassThrough, sendLimit, lastMIDIMsg, tasks, cleanup,
                   received, buf, split, eval>>

\* variant: a callback that does not go on after a Send that failed
PrimarySentStopsOnFailure ==
    /\ Alive
    /\ ppc = "send"
    /\ ~defaultPassThrough
    /\ ~wire[pcur.w].failed
    /\ lastMIDIMsg' = now
    /\ wire' = [wire EXCEPT ![pcur.w].updated = TRUE]
    /\ IF pcur.noise.present
       THEN ppc' = "sched" /\ UNCHANGED pcur
       ELSE ppc' = "idle" /\ pcur' = NoCur
    /\ UNCHANGED <<now, env, defaultPassThrough, sendLimit, rules, pending, tasks, cleanup,
                   dispatches, received, buf, split, eval>>

\* handleSinglePacket with rules: Send returned, lastMIDIMsg = time.Now()
PrimarySent ==
    /\ Alive
    /\ ppc = "send"
    /\ ~defaultPassThrough
    /\ lastMIDIMsg' = now
    /\ wire' = [wire EXCEPT ![pcur.w].updated = TRUE]
    /\ IF pcur.noise.present
       THEN ppc' = "sched" /\ UNCHANGED pcur
       ELSE ppc' = "idle" /\ pcur' = NoCur
    /\ UNCHANGED <<now, env, defaultPassThrough, sendLimit, rules, pending, tasks, cleanup,
                   dispatches, received, buf, split, eval>>

\* variant: a passthrough path that sets lastMIDIMsg after the Send of a Stop
\* message, before the panic sequence
PassthroughSentUpdatesFirst ==
    /\ Alive
    /\ ppc = "send"
    /\ defaultPassThrough
    /\ lastMIDIMsg' = now
    /\ IF Len(pcur.packet) > 0 /\ pcur.packet[1] = 252
       THEN /\ wire' = Append([wire EXCEPT ![pcur.w].updated = TRUE], PanicEntry(0, "cb"))
            /\ ppc' = "panic"
            /\ UNCHANGED pcur
       ELSE /\ wire' = [wire EXCEPT ![pcur.w].updated = TRUE]
            /\ ppc' = "idle"
            /\ pcur' = NoCur
    /\ UNCHANGED <<now, env, defaultPassThrough, sendLimit, rules, pending, tasks, cleanup,
                   dispatches, received, buf, split, eval>>

\* handleSinglePacket in passthrough mode: Send returned; a Stop message
\* calls sendAllNotesOffAndResetControllers, whose first Send starts; any other
\* message sets lastMIDIMsg
PassthroughSent ==
    /\ Alive
    /\ ppc = "send"
    /\ defaultPassThrough
    /\ IF Len(pcur.packet) > 0 /\ pcur.packet[1] = 252
       THEN /\ wire' = Append(wire, PanicEntry(0, "cb"))
            /\ ppc' = "panic"
            /\ UNCHANGED <<lastMIDIMsg, pcur>>
       ELSE /\ lastMIDIMsg' = now
            /\ wire' = [wire EXCEPT ![pcur.w].updated = TRUE]
            /\ ppc' = "idle"
            /\ pcur' = NoCur
    /\ UNCHANGED <<now, env, defaultPassThrough, sendLimit, rules, pending, tasks, cleanup,
                   dispatches, received, buf, split, eval>>

\* sendAllNotesOffAndResetControllers called by handleSinglePacket: the loop
\* runs to its end, and handleSinglePacket sets lastMIDIMsg
PassthroughPanic ==
    /\ Alive
    /\ ppc = "panic"
    /\ lastMIDIMsg' = now
    /\ wire' = [i \in 1 .. Len(wire) |->
                    IF i >= pcur.w /\ wire[i].by = "cb"
                    THEN [wire[i] EXCEPT !.updated = TRUE] ELSE wire[i]]
                \o [k \in 1 .. (2 * NumChannels - 1) |->
                       [PanicRest("cb")[k] EXCEPT !.updated = TRUE]]
    /\ ppc' = "idle"
    /\ pcur' = NoCur
    /\ UNCHANGED <<now, env, defaultPassThrough, sendLimit, rules, pending, tasks, cleanup,
                   dispatches, received, buf, split, eval>>

\* variant: a scheduler that hands every noise packet to a goroutine
ScheduleNoiseNowDeferred ==
    /\ Alive
    /\ ppc = "sched"
    /\ pcur.noise.delayMs <= 0
    /\ Len(tasks) < MaxTasks
    /\ tasks' = Append(tasks, [pc |-> "sleep", packet |-> pcur.noise.packet,
                               delayMs |-> pcur.noise.delayMs,
                               wakeAt |-> now, msg |-> Len(dispatches), w |-> 0,
                               outcome |-> "none"])
    /\ ppc' = "idle"
    /\ pcur' = NoCur
    /\ UNCHANGED <<now, env, defaultPassThrough, sendLimit, lastMIDIMsg, rules, pending,
                   cleanup, wire, dispatches, received, buf, split, eval>>

\* scheduleNoisePacket with delayMs <= 0: the check, and the call of Send
ScheduleNoiseNow ==
    /\ Alive
    /\ ppc = "sched"
    /\ pcur.noise.delayMs <= 0
    /\ IF withinSendLimit(lastMIDIMsg, now, sendLimit)
       THEN ppc' = "idle" /\ pcur' = NoCur /\ UNCHANGED wire
       ELSE /\ \E sf \in env.sendFails :
                  wire' = Append(wire, Send(WireEntry("noise", pcur.noise.packet, "cb", 0,
                                                      TRUE, Len(dispatches), 0, -1), sf))
            /\ ppc' = "nsend"
            /\ pcur' = [pcur EXCEPT !.w = Len(wire) + 1]
    /\ UNCHANGED <<now, env, defaultPassThrough, sendLimit, lastMIDIMsg, rules, pending,
                   tasks, cleanup, dispatches, received, buf, split, eval>>

\* scheduleNoisePacket with delayMs <= 0: Send returned, lastMIDIMsg = time.Now()
NoiseNowSent ==
    /\ Alive
    /\ ppc = "nsend"
    /\ lastMIDIMsg' = now
    /\ wire' = [wire EXCEPT ![pcur.w].updated = TRUE]
    /\ ppc' = "idle"
    /\ pcur' = NoCur
    /\ UNCHANGED <<now, env, defaultPassThrough, sendLimit, rules, pending, tasks, cleanup,
                   dispatches, received, buf, split, eval>>

\* scheduleNoisePacket with delayMs > 0: the goroutine is started
ScheduleNoiseLater ==
    /\ Alive
    /\ ppc = "sched"
    /\ pcur.noise.delayMs > 0
    /\ Len(tasks) < MaxTasks
    /\ tasks' = Append(tasks, [pc |-> "sleep", packet |-> pcur.noise.packet,
                               delayMs |-> pcur.noise.delayMs,
                               wakeAt |-> now + SleepTicks(pcur.noise.delayMs),
                               msg |-> Len(dispatches), w |-> 0,
                               outcome |-> "none"])
    /\ ppc' = "idle"
    /\ pcur' = NoCur
    /\ UNCHANGED <<now, env, defaultPassThrough, sendLimit, lastMIDIMsg, rules, pending,
                   cleanup, wire, dispatches, received, buf, split, eval>>

\* variant: a goroutine that calls Send when its sleep is over, with no check
TaskFireUnchecked(i) ==
    /\ Alive
    /\ tasks[i].pc = "sleep"
    /\ now >= tasks[i].wakeAt
    /\ \E sf \in env.sendFails :
           wire' = Append(wire, Send(WireEntry("noise", tasks[i].packet, "task", i,
                                               TRUE, tasks[i].msg, 0, -1), sf))
    /\ tasks' = [tasks EXCEPT ![i].pc = "send", ![i].w = Len(wire) + 1]
    /\ UNCHANGED <<now, env, defaultPassThrough, sendLimit, lastMIDIMsg, rules, pending, ppc,
                   pcur, cleanup, dispatches, received, buf, split, eval>>

\* the goroutine of scheduleNoisePacket: the sleep is over; the check, and the
\* call of Send
TaskFire(i) ==
    /\ Alive
    /\ tasks[i].pc = "sleep"
    /\ now >= tasks[i].wakeAt
    /\ IF withinSendLimit(lastMIDIMsg, now, sendLimit)
       THEN /\ tasks' = [tasks EXCEPT ![i].pc = "done", ![i].outcome = "dropped"]
            /\ UNCHANGED wire
       ELSE /\ \E sf \in env.sendFails :
                  wire' = Append(wire, Send(WireEntry("noise", tasks[i].packet, "task", i,
                                                      TRUE, tasks[i].msg, 0, -1), sf))
            /\ tasks' = [tasks EXCEPT ![i].pc = "send", ![i].w = Len(wire) + 1]
    /\ UNCHANGED <<now, env, defaultPassThrough, sendLimit, lastMIDIMsg, rules, pending, ppc,
                   pcur, cleanup, dispatches, received, buf, split, eval>>

\* variant: a goroutine that returns from Send and leaves lastMIDIMsg alone
TaskSentNoUpdate(i) ==
    /\ Alive
    /\ tasks[i].pc = "send"
    /\ tasks' = [tasks EXCEPT ![i].pc = "done", ![i].outcome = "sent"]
    /\ UNCHANGED <<now, env, defaultPassThrough, sendLimit, lastMIDIMsg, rules, pending,
                   ppc, pcur, cleanup, wire, dispatches, received, buf, split, eval>>

\* the goroutine of scheduleNoisePacket: Send returned, lastMIDIMsg = time.Now()
TaskSent(i) ==
    /\ Alive
    /\ tasks[i].pc = "send"
    /\ lastMIDIMsg' = now
    /\ wire' = [wire EXCEPT ![tasks[i].w].updated = TRUE]
    /\ tasks' = [tasks EXCEPT ![i].pc = "done", ![i].outcome = "sent"]
    /\ UNCHANGED <<now, env, defaultPassThrough, sendLimit, rules, pending, ppc, pcur,
                   cleanup, dispatches, received, buf, split, eval>>

\* main received a signal: Cleanup calls sendAllNotesOffAndResetControllers,
\* whose first Send starts
CleanupStart ==
    /\ cleanup = "idle"
    /\ wire' = Append(wire, PanicEntry(0, "main"))
    /\ cleanup' = "panic"
    /\ UNCHANGED <<now, env, defaultPassThrough, sendLimit, lastMIDIMsg, rules, pending, ppc,
                   pcur, tasks, dispatches, received, buf, split, eval>>

\* Cleanup: the loop runs to its end; Cleanup returns and main with it, which
\* ends the process
CleanupPanic ==
    /\ cleanup = "panic"
    /\ wire' = wire \o PanicRest("main")
    /\ cleanup' = "done"
    /\ UNCHANGED <<now, env, defaultPassThrough, sendLimit, lastMIDIMsg, rules, pending, ppc,
                   pcur, tasks, dispatches, received, buf, split, eval>>

(***************************************************************************)
(* Framing on its own: splitMIDIData applied to a buffer.                  *)
(***************************************************************************)
NotSplit == [messages |-> <<>>, reads |-> {}, stop |-> -1]

Split ==
    /\ split = NotSplit
    /\ split' = splitMIDIData(buf)
    /\ UNCHANGED <<buf, now, env, defaultPassThrough, sendLimit, lastMIDIMsg, rules,
                   pending, ppc, pcur, tasks, cleanup, wire, dispatches, received,
                   eval>>

(***************************************************************************)
(* The loop of splitMIDIData step by step: split.stop is the index i,      *)
(* the callback is at "split" while the loop runs.                         *)
(***************************************************************************)
\* splitMIDIData is entered: var messages [][]byte; i := 0
SplitStart ==
    /\ ppc = "idle"
    /\ split = NotSplit
    /\ ppc' = "split"
    /\ split' = [messages |-> <<>>, reads |-> {}, stop |-> 0]
    /\ UNCHANGED <<buf, now, env, defaultPassThrough, sendLimit, lastMIDIMsg, rules,
                   pending, pcur, tasks, cleanup, wire, dispatches, received, eval>>

\* one iteration that appends data[i:i+length] and adds length to i
SplitAppend ==
    /\ ppc = "split"
    /\ split.stop < Len(buf)
    /\ LET i == split.stop
           length == midiMessageLength(buf[i + 1])
       IN  /\ ~(i + length > Len(buf))
           /\ split' = [messages |-> Append(split.messages, SubSeq(buf, i + 1, i + length)),
                        reads |-> split.reads \cup (i .. (i + length - 1)),
                        stop |-> i + length]
    /\ UNCHANGED <<buf, now, env, defaultPassThrough, sendLimit, lastMIDIMsg, rules,
                   pending, ppc, pcur, tasks, cleanup, wire, dispatches, received, eval>>

\* the iteration that finds i+length > len(data): break, and return
SplitBreak ==
    /\ ppc = "split"
    /\ split.stop < Len(buf)
    /\ split.stop + midiMessageLength(buf[split.stop + 1]) > Len(buf)
    /\ split' = [split EXCEPT !.reads = @ \cup {split.stop}]
    /\ ppc' = "idle"
    /\ UNCHANGED <<buf, now, env, defaultPassThrough, sendLimit, lastMIDIMsg, rules,
                   pending, pcur, tasks, cleanup, wire, dispatches, received, eval>>

\* the loop condition i < len(data) fails: return
SplitReturn ==
    /\ ppc = "split"
    /\ ~(split.stop < Len(buf))
    /\ ppc' = "idle"
    /\ UNCHANGED <<buf, split, now, env, defaultPassThrough, sendLimit, lastMIDIMsg,
                   rules, pending, pcur, tasks, cleanup, wire, dispatches, received,
                   eval>>

(***************************************************************************)
(* Rule evaluation on its own: Rule.Match of the first rule applied to the *)
(* message buf at time t.                                                  *)
(***************************************************************************)
NotEvaluated == [t |-> -1, in |-> NoInputs, ev |-> <<>>]

Evaluate ==
    /\ eval = NotEvaluated
    /\ \E t \in 0 .. env.horizon, genErr \in env.genErrs, rv \in env.rvs,
          rd \in env.rds, fe \in env.fes, conv \in env.convs :
        LET in == [genErr |-> genErr, rv |-> rv, rd |-> rd, fe |-> fe, conv |-> conv]
        IN  /\ now' = t
            /\ eval' = [t |-> t, in |-> in, ev |-> Match(rules[1], buf, t, in)]
    /\ UNCHANGED <<buf, split, env, defaultPassThrough, sendLimit, lastMIDIMsg, rules,
                   pending, ppc, pcur, tasks, cleanup, wire, dispatches, received>>

(***************************************************************************)
(* Configurations: what LoadConfig builds from a configuration file.       *)
(***************************************************************************)
NoNoiseSettings ==
    [MsgType |-> 0, Channel |-> 0, MinValue |-> 0, MaxValue |-> 0,
     DelayMsMin |-> 0, DelayMsMax |-> 0]

Transform(mode, fromMin, fromMax, toMin, toMax, ns) ==
    [mode |-> mode, fromMin |-> fromMin, fromMax |-> fromMax, toMin |-> toMin,
     toMax |-> toMax, noiseSettings |-> ns]

Filter(msgType, channel, number, capture) ==
    [msgType |-> msgType, channel |-> channel, number |-> number, capture |-> capture]

Generator(msgType, channel, number) ==
    [msgType |-> msgType, channel |-> channel, number |-> number]

\* Note On of any channel, Noise mode: a Control Change noise packet on
\* channel 2 with the value 10 after 0..1 ms
ruleNoise ==
    NewRule(Filter(FilterMsgTypeNoteOn, FilterChannelAny, -1, TRUE),
            Transform(TransformModeNoise, 0, 127, 0, 127,
                      [MsgType |-> FilterMsgTypeControlChange, Channel |-> 1,
                       MinValue |-> 10, MaxValue |-> 10,
                       DelayMsMin |-> 0, DelayMsMax |-> 1]),
            FALSE, 0,
            Generator(FilterMsgTypeNoteOn, 1, 60))

\* Control Change 7 of channel 1, Linear 0..127 to 0..100, duplicates dropped
ruleCC7(timeout) ==
    NewRule(Filter(FilterMsgTypeControlChange, 0, 7, TRUE),
            Transform(TransformModeLinear, 0, 127, 0, 100, NoNoiseSettings),
            TRUE, timeout,
            Generator(FilterMsgTypeControlChange, 0, 7))

\* any other Control Change: a filter that captures no value
ruleCCNoValue ==
    NewRule(Filter(FilterMsgTypeControlChange, FilterChannelAny, -1, FALSE),
            Transform(TransformModeNone, 0, 0, 0, 0, NoNoiseSettings),
            FALSE, 0,
            Generator(FilterMsgTypeControlChange, 0, 9))

\* everything else, sent on as a Program Change of channel 3
ruleAll ==
    NewRule(Filter(FilterMsgTypeAny, FilterChannelAny, -1, TRUE),
            Transform(TransformModeNone, 0, 0, 0, 0, NoNoiseSettings),
            FALSE, 0,
            Generator(FilterMsgTypeProgramChange, 2, 0))

\* a router with rules, fed a Program Change and a buffer that holds a Note On
\* and a Program Change; a router in passthrough mode, fed a Program Change
\* and a Stop
Configs ==
    { [passthrough |-> FALSE, sendLimit |-> 1,
       rules |-> <<ruleNoise, ruleCC7(2), ruleCCNoValue, ruleAll>>,
       buffers |-> { <<192, 5>>, <<144, 60, 100, 192, 5>> }],
      [passthrough |-> TRUE, sendLimit |-> 1,
       rules |-> <<ruleNoise, ruleCC7(2), ruleCCNoValue, ruleAll>>,
       buffers |-> { <<192, 5>>, <<252>> }] }

ConfigSeq ==
    [passthrough |-> FALSE, sendLimit |-> 10,
     rules |-> <<ruleCC7(5), ruleCCNoValue, ruleAll>>]

BuffersSeq == { <<176, 7, 127>>, <<176, 7, 0>>, <<176, 8, 5>>, <<192, 5>> }

\* the ticks between two buffers: 10, 20, 30, 60 and 80 ms
GapsSeq == {1, 2, 3, 6, 8}

\* the bytes the framing is tried on: a data byte and status bytes of every
\* branch of midiMessageLength
SplitBytes == {5, 144, 192, 240, 241, 242}

RECURSIVE SeqsOf(_, _)
SeqsOf(S, n) ==
    IF n = 0 THEN {<<>>}
    ELSE {Append(q, x) : q \in SeqsOf(S, n - 1), x \in S}

\* the buffers onPacket gives to splitMIDIData
SplitBuffers ==
    {b \in UNION {SeqsOf(SplitBytes, n) : n \in 4 .. MaxBufLen} : b[1] # 240}

\* uint8(x) and uint16(x) of an int
Uint8(x) == x % 256
Uint16(x) == x % 65536

\* One rule of LoadConfig, from the RuleConfig rc with the filter and the
\* generator built: ok is whether LoadConfig goes on to AddRule.  The bounds
\* of rc.Transform are taken in 0 .. 2^31 - 1, which uint32() leaves as they
\* are; the timeout is a number of ticks.
LoadRule(rc) ==
    LET tc == rc.Transform
        nc == tc.NoiseSettings
        ns == IF tc.Mode = TransformModeNoise
              THEN [MsgType |-> nc.MsgType, Channel |-> nc.Channel,
                    MinValue |-> Uint8(nc.MinValue), MaxValue |-> Uint8(nc.MaxValue),
                    DelayMsMin |-> Uint16(nc.DelayMsMin),
                    DelayMsMax |-> Uint16(nc.DelayMsMax)]
              ELSE NoNoiseSettings
        t == IF tc.Mode = TransformModeNone
             THEN Transform(TransformModeNone, 0, 0, 0, 0, NoNoiseSettings)
             ELSE Transform(tc.Mode, tc.FromMin, tc.FromMax, tc.ToMin, tc.ToMax, ns)
    IN  [ok |-> ~(tc.Mode = TransformModeNoise /\ nc.MaxValue > 127),
         rule |-> NewRule(rc.Filter, t, rc.Generator.DropDuplicates,
                          rc.Generator.DropDuplicatesTimeoutMs \div MsPerTick,
                          Generator(FilterMsgTypeControlChange, 0, 7))]

TransformConfig(mode, fromMin, fromMax, toMin, toMax, nc) ==
    [Mode |-> mode, FromMin |-> fromMin, FromMax |-> fromMax, ToMin |-> toMin,
     ToMax |-> toMax, NoiseSettings |-> nc]

NoiseSettingsConfig(minValue, maxValue, delayMsMin, delayMsMax) ==
    [MsgType |-> FilterMsgTypeControlChange, Channel |-> 1, MinValue |-> minValue,
     MaxValue |-> maxValue, DelayMsMin |-> delayMsMin, DelayMsMax |-> delayMsMax]

NoNoiseConfig == NoiseSettingsConfig(0, 0, 0, 0)

\* the transforms of the configuration files the rule evaluation is tried on:
\* valid ones of every mode, and ones whose bounds or noise settings are out
\* of order
TransformConfigs ==
    { TransformConfig(TransformModeNone, 0, 0, 0, 0, NoNoiseConfig),
      TransformConfig(TransformModePreventRunStatus, 0, 127, 0, 127, NoNoiseConfig),
      TransformConfig(TransformModeLinear, 0, 127, 0, 127, NoNoiseConfig),
      TransformConfig(TransformModeLinear, 0, 127, 0, 100, NoNoiseConfig),
      TransformConfig(TransformModeLinear, 0, 7, 0, 61, NoNoiseConfig),
      TransformConfig(TransformModeLinear, 5, 5, 0, 10, NoNoiseConfig),
      TransformConfig(TransformModeLinearDrop, 0, 100, 0, 100, NoNoiseConfig),
      TransformConfig(TransformModeLinearDrop, 0, 100, 50, 10, NoNoiseConfig),
      TransformConfig(TransformModeNoise, 0, 127, 0, 127,
                      NoiseSettingsConfig(10, 20, 5, 5)),
      TransformConfig(TransformModeNoise, 0, 127, 0, 127,
                      NoiseSettingsConfig(7, 7, 0, 2)),
      TransformConfig(TransformModeNoise, 0, 127, 0, 127,
                      NoiseSettingsConfig(20, 10, 5, 2)),
      TransformConfig(TransformModeNoise, 0, 127, 0, 127,
                      NoiseSettingsConfig(0, 128, 0, 0)) }

\* rules on Control Change 7 of channel 1, with a filter that captures the
\* value or not; duplicates are dropped for 20 ms
RuleConfigs ==
    { [Filter |-> Filter(FilterMsgTypeControlChange, 0, 7, capture), Transform |-> tc,
       Generator |-> [DropDuplicates |-> TRUE, DropDuplicatesTimeoutMs |-> 20]] :
          capture \in BOOLEAN, tc \in TransformConfigs }

\* the messages a rule is evaluated on: Control Change 7 of channel 1 with
\* several values, another controller, another channel, another type
MatchPackets ==
    { <<176, 7, 0>>, <<176, 7, 1>>, <<176, 7, 7>>, <<176, 7, 100>>, <<176, 7, 101>>,
      <<176, 7, 127>>, <<176, 8, 5>>, <<177, 7, 5>>, <<192, 5>> }

\* the messages a rule has seen before
PriorPackets == { <<176, 7, 7>>, <<176, 7, 100>> }

(***************************************************************************)
(* Specifications.                                                         *)
(***************************************************************************)
\* the router after LoadConfig: router.New, the setters and AddRule
InitRouter(cfg, e) ==
    /\ now = 0
    /\ env = e
    /\ defaultPassThrough = cfg.passthrough
    /\ sendLimit = cfg.sendLimit
    /\ lastMIDIMsg = ZeroTime
    /\ rules = cfg.rules
    /\ pending = <<>>
    /\ ppc = "idle"
    /\ pcur = NoCur
    /\ tasks = <<>>
    /\ cleanup = "idle"
    /\ wire = <<>>
    /\ dispatches = <<>>
    /\ received = 0

\* the router with its goroutines and main's Cleanup.  The transforms of its
\* rules (0,127 to 0,100 and 0,127 to 0,127) have valid bounds, and on the
\* values sent here the float64 result is the exact one: fes and convs hold
\* one outcome.
Init ==
    /\ \E cfg \in Configs :
        InitRouter(cfg, [horizon |-> MaxTime, packets |-> MaxPackets,
                         buffers |-> cfg.buffers, gaps |-> {0}, genErrs |-> {FALSE},
                         rvs |-> {0}, rds |-> {0, 1},
                         fes |-> {FALSE}, convs |-> {0},
                         sendFails |-> {FALSE}])
    /\ buf = <<>>
    /\ split = NotSplit
    /\ eval = NotEvaluated

Next ==
    \/ Tick
    \/ OnPacket
    \/ DispatchPassthrough
    \/ DispatchRules
    \/ PrimarySent
    \/ PassthroughSent
    \/ PassthroughPanic
    \/ ScheduleNoiseNow
    \/ NoiseNowSent
    \/ ScheduleNoiseLater
    \/ \E i \in 1 .. Len(tasks) : TaskFire(i)
    \/ \E i \in 1 .. Len(tasks) : TaskSent(i)
    \/ CleanupStart
    \/ CleanupPanic

Spec == Init /\ [][Next]_vars

\* Time goes on, and the Go scheduler runs every runnable goroutine: a noise
\* goroutine whose sleep is over takes its steps.  Buffers and the signal
\* that makes main call Cleanup come or do not.
Fairness ==
    /\ WF_vars(Tick)
    /\ \A i \in 1 .. MaxTasks :
           /\ WF_vars(i <= Len(tasks) /\ TaskFire(i))
           /\ WF_vars(i <= Len(tasks) /\ TaskSent(i))

SpecFair == Init /\ [][Next]_vars /\ Fairness

\* the router on a transport whose Send may fail
InitSend ==
    /\ \E cfg \in Configs :
        InitRouter(cfg, [horizon |-> MaxTime, packets |-> MaxPackets,
                         buffers |-> cfg.buffers, gaps |-> {0}, genErrs |-> {FALSE},
                         rvs |-> {0}, rds |-> {0, 1},
                         fes |-> {FALSE}, convs |-> {0},
                         sendFails |-> BOOLEAN])
    /\ buf = <<>>
    /\ split = NotSplit
    /\ eval = NotEvaluated

SpecSend == InitSend /\ [][Next]_vars

\* the primary path alone: the driver's callback, rules without noise
InitSeq ==
    /\ InitRouter(ConfigSeq, [horizon |-> MaxTimeSeq, packets |-> MaxPacketsSeq,
                              buffers |-> BuffersSeq, gaps |-> GapsSeq,
                              genErrs |-> BOOLEAN, rvs |-> {0}, rds |-> {0},
                              fes |-> {FALSE}, convs |-> {0},
                         sendFails |-> {FALSE}])
    /\ buf = <<>>
    /\ split = NotSplit
    /\ eval = NotEvaluated

NextSeq ==
    \/ OnPacket
    \/ DispatchRules
    \/ PrimarySent

SpecSeq == InitSeq /\ [][NextSeq]_vars

\* splitMIDIData on every buffer onPacket can give it
InitSplit ==
    /\ InitRouter(ConfigSeq, [horizon |-> 0, packets |-> 0, buffers |-> {}, gaps |-> {},
                             genErrs |-> {}, rvs |-> {}, rds |-> {}, fes |-> {},
                             convs |-> {}, sendFails |-> {}])
    /\ buf \in SplitBuffers
    /\ split = NotSplit
    /\ eval = NotEvaluated

NextSplit == Split

SpecSplit == InitSplit /\ [][NextSplit]_vars

\* buffers for onPacket on its own: short ones that hold two messages by the
\* length table, SysEx of one and of five bytes, and long ones to be split
BuffersOnPacket ==
    { <<248, 248>>, <<192, 5, 248>>, <<240>>, <<240, 1, 2, 3, 247>>,
      <<144, 60, 100, 192, 5>>, <<248, 144, 60, 100>> }

\* onPacket of a router in passthrough mode, where handleSinglePacket deals
\* with a message as it is given it
InitOnPacket ==
    /\ InitRouter([passthrough |-> TRUE, sendLimit |-> 1, rules |-> <<ruleAll>>],
                  [horizon |-> MaxTimeOnPacket, packets |-> MaxPacketsOnPacket,
                   buffers |-> BuffersOnPacket, gaps |-> {0, 2}, genErrs |-> {},
                   rvs |-> {}, rds |-> {}, fes |-> {}, convs |-> {},
                   sendFails |-> {FALSE}])
    /\ buf = <<>>
    /\ split = NotSplit
    /\ eval = NotEvaluated

NextOnPacket ==
    \/ OnPacket
    \/ DispatchPassthrough
    \/ PassthroughSent

SpecOnPacket == InitOnPacket /\ [][NextOnPacket]_vars

\* every byte buffer of up to MaxFrameLen bytes, the empty one included
FrameBuffers == UNION {SeqsOf(SplitBytes, n) : n \in 0 .. MaxFrameLen}

\* splitMIDIData run step by step on a buffer
InitFrame ==
    /\ InitRouter(ConfigSeq, [horizon |-> 0, packets |-> 0, buffers |-> {}, gaps |-> {},
                             genErrs |-> {}, rvs |-> {}, rds |-> {}, fes |-> {},
                             convs |-> {}, sendFails |-> {}])
    /\ buf \in FrameBuffers
    /\ split = NotSplit
    /\ eval = NotEvaluated

NextFrame ==
    \/ SplitStart
    \/ SplitAppend
    \/ SplitBreak
    \/ SplitReturn

\* a function that was called takes its next statement
SpecFrame == InitFrame /\ [][NextFrame]_vars /\ WF_vars(NextFrame)

\* the rules LoadConfig adds to the router, new or having evaluated one
\* message at time 0
MatchRules ==
    LET loaded == {LoadRule(rc).rule : rc \in {c \in RuleConfigs : LoadRule(c).ok}}
    IN  loaded \cup
        { Match(r, p, 0, [NoInputs EXCEPT !.fe = fe, !.conv = conv]).rule :
              r \in loaded, p \in PriorPackets, fe \in BOOLEAN, conv \in {0, 65535} }

\* Rule.Match applied once to one message
InitMatch ==
    /\ \E r \in MatchRules :
        InitRouter([passthrough |-> FALSE, sendLimit |-> 10, rules |-> <<r>>],
                   [horizon |-> MaxTimeMatch, packets |-> 0, buffers |-> {},
                    gaps |-> {}, genErrs |-> BOOLEAN, rvs |-> {0, 3, 10},
                    rds |-> {0, 1, 2}, fes |-> BOOLEAN, convs |-> {0, 65535},
                    sendFails |-> {}])
    /\ buf \in MatchPackets
    /\ split = NotSplit
    /\ eval = NotEvaluated

NextMatch == Evaluate

SpecMatch == InitMatch /\ [][NextMatch]_vars


(***************************************************************************)
(* Observations on the histories.                                          *)
(***************************************************************************)
\* the writes guarded by the rate limiter: primary, passthrough and noise
RateLimited(w) == w.kind \in {"primary", "passthrough", "noise"}

RateLimitedWrites == {i \in 1 .. Len(wire) : RateLimited(wire[i])}

\* writes i < j with no rate-limited write between them
ConsecutiveWrites(i, j) ==
    /\ i \in RateLimitedWrites
    /\ j \in RateLimitedWrites
    /\ i < j
    /\ \A k \in RateLimitedWrites : ~(i < k /\ k < j)

\* the threads that called Send on the destination port and have not yet
\* returned from it
SendsInProgress ==
    IF ~Alive THEN 0
    ELSE (IF ppc \in {"send", "nsend", "panic"} THEN 1 ELSE 0)
         + Cardinality({i \in 1 .. Len(tasks) : tasks[i].pc = "send"})
         + (IF cleanup = "panic" THEN 1 ELSE 0)

(***************************************************************************)
(* C1: the rate-limit check and the update of lastMIDIMsg are one atomic   *)
(* step: no two senders pass the check against the same value of           *)
(* lastMIDIMsg, and two consecutive rate-limited writes are more than      *)
(* sendLimit apart.                                                        *)
(***************************************************************************)
C1_AtomicCheckAndUpdate ==
    /\ \A i, j \in RateLimitedWrites : i # j => wire[i].seen # wire[j].seen
    /\ \A i, j \in RateLimitedWrites :
           ConsecutiveWrites(i, j) => wire[j].t - wire[i].t > sendLimit

(***************************************************************************)
(* C2: writes to the destination port are serialized: at no time are two   *)
(* Sends in progress, whichever of the callback, a noise goroutine and     *)
(* Cleanup started them.                                                   *)
(***************************************************************************)
C2_SendsSerialized == SendsInProgress <= 1


\* the rules as handleSinglePacket call n left them
RulesAfter(n) == IF n < Len(dispatches) THEN dispatches[n + 1].before ELSE rules

\* the writes made for the message of handleSinglePacket call n
WritesFor(n) == {i \in 1 .. Len(wire) : wire[i].msg = n}

PrimaryWritesFor(n) == {i \in WritesFor(n) : wire[i].kind = "primary"}

RuleCalls == {n \in 1 .. Len(dispatches) : ~dispatches[n].passthrough}

(***************************************************************************)
(* C3: with passthrough disabled the rules are evaluated in list order     *)
(* and the evaluation stops at the first rule that returns MatchInject or  *)
(* MatchNoInject: no later rule is evaluated or changed, at most one       *)
(* primary packet is sent for the message, and a first MatchNoInject       *)
(* sends nothing.                                                          *)
(***************************************************************************)
C3_FirstMatchWins ==
    \A n \in RuleCalls :
        LET d == dispatches[n]
            m == Len(d.log)
        IN  /\ \A k \in 1 .. m : d.log[k].idx = k
            /\ \A k \in 1 .. (m - 1) : d.log[k].Result = RuleMatchResultNoMatch
            /\ m < Len(d.before) =>
                   /\ m >= 1
                   /\ d.log[m].Result \in {RuleMatchResultMatchInject,
                                           RuleMatchResultMatchNoInject}
            /\ d.Result = IF m >= 1 THEN d.log[m].Result ELSE RuleMatchResultNoMatch
            /\ \A k \in (m + 1) .. Len(d.before) : RulesAfter(n)[k] = d.before[k]
            /\ Cardinality(PrimaryWritesFor(n)) <= 1
            /\ d.Result = RuleMatchResultMatchNoInject => WritesFor(n) = {}

\* one message stopped at the first rule and was written, another stopped at
\* the second rule with MatchNoInject, the third rule unevaluated
C3_Witness ==
    /\ \E n \in RuleCalls :
           /\ Len(dispatches[n].log) = 1
           /\ dispatches[n].Result = RuleMatchResultMatchInject
           /\ Cardinality(PrimaryWritesFor(n)) = 1
    /\ \E n \in RuleCalls :
           /\ Len(dispatches[n].log) = 2
           /\ Len(dispatches[n].before) = 3
           /\ dispatches[n].Result = RuleMatchResultMatchNoInject
           /\ WritesFor(n) = {}

(***************************************************************************)
(* C4: on the sequential primary path a packet to inject is sent if and    *)
(* only if now - lastMIDIMsg > sendLimit, lastMIDIMsg being the time of    *)
(* the last send performed; a dropped send does not advance lastMIDIMsg    *)
(* and is never retried.  With sendLimit = 100 ms and packets to inject   *)
(* at t, t + 30 ms and t + 110 ms, the first and the third are written.    *)
(***************************************************************************)
Injects == {n \in RuleCalls : dispatches[n].Result = RuleMatchResultMatchInject}

Max(S, least) == IF S = {} THEN least ELSE CHOOSE x \in S : \A y \in S : y <= x

\* the time of the last send performed before handleSinglePacket call n
LastSendBefore(n) ==
    Max({wire[i].t : i \in {j \in 1 .. Len(wire) : wire[j].msg < n}}, ZeroTime)

C4_SequentialRateLimit ==
    /\ \A n \in Injects :
           /\ PrimaryWritesFor(n) # {} <=>
                  dispatches[n].t - LastSendBefore(n) > sendLimit
           /\ Cardinality(WritesFor(n)) <= 1
    /\ \A i \in 1 .. Len(wire) :
           /\ wire[i].msg \in Injects
           /\ wire[i].t = dispatches[wire[i].msg].t
           /\ wire[i].data = dispatches[wire[i].msg].MainPacket
    /\ \A i, j \in 1 .. Len(wire) : i < j => wire[i].msg < wire[j].msg
    /\ ppc = "idle" =>
           lastMIDIMsg = Max({wire[i].t : i \in 1 .. Len(wire)}, ZeroTime)
    /\ \A a, b, c \in Injects :
           (/\ sendLimit = 10
            /\ Injects = {a, b, c}
            /\ dispatches[b].t = dispatches[a].t + 3
            /\ dispatches[c].t = dispatches[a].t + 11)
           => /\ PrimaryWritesFor(a) # {}
              /\ PrimaryWritesFor(b) = {}
              /\ PrimaryWritesFor(c) # {}
              /\ Len(wire) = 2

\* packets to inject at t, t + 30 ms and t + 110 ms, the callback returned
C4_Witness ==
    /\ sendLimit = 10
    /\ ppc = "idle"
    /\ Len(dispatches) = 3
    /\ Injects = {1, 2, 3}
    /\ dispatches[2].t = dispatches[1].t + 3
    /\ dispatches[3].t = dispatches[1].t + 11
    /\ Len(wire) = 2


\* the thread that made write i has returned from the Send and gone on
Finished(i) ==
    CASE wire[i].by = "cb" -> ~(ppc \in {"send", "nsend", "panic"} /\ pcur.w <= i)
      [] wire[i].by = "task" -> tasks[wire[i].id].pc = "done"
      [] OTHER -> cleanup = "done"

(***************************************************************************)
(* C5: every primary, passthrough and noise write is preceded by a         *)
(* rate-limit check against lastMIDIMsg, which it passed, and followed by  *)
(* an update of lastMIDIMsg.  The all-notes-off / reset-controllers        *)
(* packets are written with no check, and those of Cleanup with no update. *)
(***************************************************************************)
C5_RateLimitedWritesCheckedAndUpdated ==
    \A i \in 1 .. Len(wire) :
        IF RateLimited(wire[i])
        THEN /\ wire[i].checked
             /\ wire[i].t - wire[i].seen > sendLimit
             /\ Finished(i) => wire[i].updated /\ lastMIDIMsg >= wire[i].t
        ELSE /\ ~wire[i].checked
             /\ wire[i].by = "main" => ~wire[i].updated
             /\ wire[i].by = "cb" /\ Finished(i) => wire[i].updated

\* a goroutine has sent its noise packet and set lastMIDIMsg, and Cleanup has
\* written its packets
C5_Witness ==
    /\ \E i \in 1 .. Len(wire) :
           /\ wire[i].kind = "noise"
           /\ wire[i].by = "task"
           /\ Finished(i)
    /\ \E i \in 1 .. Len(wire) : wire[i].kind = "panic" /\ Finished(i)

\* C5 as stated: every write, the all-notes-off / reset-controllers packets
\* included, is preceded by a check and followed by an update
C5_EveryWriteCheckedAndUpdated ==
    \A i \in 1 .. Len(wire) :
        /\ wire[i].checked
        /\ Finished(i) => wire[i].updated


\* the table of message lengths by leading byte
TableLength(b) ==
    IF b \in (128 .. 191) \cup (224 .. 239) \cup {242} THEN 3
    ELSE IF b \in (192 .. 223) \cup {241, 243} THEN 2
    ELSE 1

RECURSIVE Concat(_)
Concat(ms) == IF ms = <<>> THEN <<>> ELSE Head(ms) \o Concat(Tail(ms))

\* what splitMIDIData left of buf
Remainder == SubSeq(buf, Len(Concat(split.messages)) + 1, Len(buf))

(***************************************************************************)
(* C6: for a buffer longer than 3 bytes that does not start with 0xF0,     *)
(* every slice of splitMIDIData has the length the table gives for its     *)
(* first byte, the slices in order are a prefix of the buffer, the         *)
(* remainder is empty or shorter than the table length of its first byte,  *)
(* and no index outside the buffer is read.                                *)
(***************************************************************************)
C6_SplitFraming ==
    split # NotSplit =>
           /\ \A k \in 1 .. Len(split.messages) :
                  Len(split.messages[k]) = TableLength(split.messages[k][1])
           /\ Concat(split.messages) = SubSeq(buf, 1, Len(Concat(split.messages)))
           /\ Remainder = <<>> \/ Len(Remainder) < TableLength(Remainder[1])
           /\ split.reads \subseteq 0 .. (Len(buf) - 1)

\* a buffer split into several messages with a partial message dropped
C6_Witness ==
    /\ split # NotSplit
    /\ Len(buf) > 3
    /\ buf[1] # 240
    /\ Len(split.messages) >= 2
    /\ Remainder # <<>>


\* the last evaluation of handleSinglePacket call n (the call evaluated a rule)
LastEval(n) == dispatches[n].log[Len(dispatches[n].log)]

Called(e, name) == \E c \in 1 .. Len(e.calls) : e.calls[c] = name

\* call n ended with a message made by the generator
Generated(n) ==
    /\ dispatches[n].log # <<>>
    /\ Called(LastEval(n), "Generate")
    /\ ~dispatches[n].in.genErr

(***************************************************************************)
(* C7: with dropDuplicates and timeout T, a matched message whose          *)
(* transformed value equals lastValue yields MatchNoInject and no          *)
(* generated message if it arrives less than T after lastValueTs, and a    *)
(* generated message if it arrives T or more after it.  For T = 50 ms two  *)
(* identical values 10 ms apart yield one generated message, 60 ms apart   *)
(* two.                                                                    *)
(***************************************************************************)
C7_DuplicateWindow ==
    /\ \A n \in RuleCalls : \A k \in 1 .. Len(dispatches[n].log) :
           LET d == dispatches[n]
               e == d.log[k]
               r == d.before[e.idx]
           IN  (r.dropDuplicates /\ e.value >= 0 /\ e.value = r.lastValue) =>
                   IF d.t - r.lastValueTs < r.dropDuplicatesTimeout
                   THEN /\ e.Result = RuleMatchResultMatchNoInject
                        /\ ~Called(e, "Generate")
                        /\ WritesFor(n) = {}
                        /\ RulesAfter(n)[e.idx] = r
                   ELSE /\ e.Result = RuleMatchResultMatchInject
                        /\ Called(e, "Generate")
                        /\ RulesAfter(n)[e.idx].lastValueTs = d.t
                        /\ ~d.in.genErr =>
                               d.MainPacket =
                                   Generate(r.generator, d.packet, e.value, FALSE).packet
    /\ \A a \in RuleCalls :
           LET b == a + 1 IN
           (/\ b \in RuleCalls
            /\ dispatches[a].before[1].dropDuplicates
            /\ dispatches[a].before[1].dropDuplicatesTimeout = 5
            /\ dispatches[a].before[1].lastValue = 65535
            /\ dispatches[a].log[1].value >= 0
            /\ dispatches[b].packet = dispatches[a].packet
            /\ ~dispatches[a].in.genErr
            /\ ~dispatches[b].in.genErr)
           => /\ dispatches[b].t = dispatches[a].t + 1 => Generated(a) /\ ~Generated(b)
              /\ dispatches[b].t = dispatches[a].t + 6 => Generated(a) /\ Generated(b)

\* the same value three times: 10 ms after the first it is dropped, 60 ms
\* after that it is generated again
C7_Witness ==
    /\ Len(dispatches) = 3
    /\ \A n \in 1 .. 3 : dispatches[n].packet = <<176, 7, 127>>
    /\ dispatches[2].t = dispatches[1].t + 1
    /\ dispatches[3].t = dispatches[2].t + 6
    /\ Generated(1)
    /\ dispatches[2].Result = RuleMatchResultMatchNoInject
    /\ Generated(3)

(***************************************************************************)
(* C8: a message is suppressed as a duplicate only if its transformed      *)
(* value is the value of the last message the rule wrote to the            *)
(* destination, within the timeout; a value that was never written does    *)
(* not suppress a later one.                                               *)
(***************************************************************************)
C8_DuplicateOfLastEmission ==
    \A n \in RuleCalls :
        LET d == dispatches[n]
            W == {i \in 1 .. Len(wire) : wire[i].rule = d.idx /\ wire[i].msg < n}
        IN  (/\ d.Result = RuleMatchResultMatchNoInject
             /\ LastEval(n).value >= 0)
            => /\ W # {}
               /\ wire[Max(W, 0)].value = LastEval(n).value
               /\ d.t - wire[Max(W, 0)].t < d.before[d.idx].dropDuplicatesTimeout

(***************************************************************************)
(* C9: when the filter of a rule answers MatchNoValue, Rule.Match returns  *)
(* MatchNoInject: the message is consumed, the generator is not called,    *)
(* no later rule is evaluated and nothing is written for it.               *)
(***************************************************************************)
NoValueAt(n, k) ==
    LET d == dispatches[n]
        f == d.before[d.log[k].idx].filter
    IN  /\ QuickMatch(f, HighNibble(d.packet[1]), LowNibble(d.packet[1]))
        /\ FilterMatch(f, d.packet).result = "MatchNoValue"

C9_NoValueConsumes ==
    \A n \in RuleCalls : \A k \in 1 .. Len(dispatches[n].log) :
        NoValueAt(n, k) =>
            /\ dispatches[n].log[k].Result = RuleMatchResultMatchNoInject
            /\ ~Called(dispatches[n].log[k], "Generate")
            /\ k = Len(dispatches[n].log)
            /\ dispatches[n].MainPacket = dispatches[n].packet
            /\ WritesFor(n) = {}
            /\ RulesAfter(n) = dispatches[n].before

\* a Control Change that the second rule matches without a value
C9_Witness ==
    \E n \in RuleCalls :
        /\ Len(dispatches[n].log) = 2
        /\ NoValueAt(n, 2)
        /\ dispatches[n].packet = <<176, 8, 5>>

\* C9 as stated: after MatchNoValue the rule's result leads to an outbound
\* message
C9_NoValueProceedsToOutput ==
    \A n \in RuleCalls : \A k \in 1 .. Len(dispatches[n].log) :
        NoValueAt(n, k) =>
            dispatches[n].log[k].Result = RuleMatchResultMatchInject

(***************************************************************************)
(* C10: when the generator fails for a matched message that is no          *)
(* duplicate, Rule.Match returns MatchInject with the packet that came     *)
(* in, and the router sends that packet unless the rate limiter drops it.  *)
(***************************************************************************)
GeneratorFailedAt(n) ==
    /\ dispatches[n].log # <<>>
    /\ Called(LastEval(n), "Generate")
    /\ dispatches[n].in.genErr

C10_GeneratorFailureFallsBack ==
    \A n \in RuleCalls :
        GeneratorFailedAt(n) =>
            /\ dispatches[n].Result = RuleMatchResultMatchInject
            /\ dispatches[n].MainPacket = dispatches[n].packet
            /\ PrimaryWritesFor(n) # {} <=>
                   dispatches[n].t - LastSendBefore(n) > sendLimit
            /\ \A i \in WritesFor(n) :
                   wire[i].kind = "primary" /\ wire[i].data = dispatches[n].packet
            /\ Cardinality(WritesFor(n)) <= 1

\* the generator failed twice: one packet was written as it came in, the other
\* was dropped by the rate limiter
C10_Witness ==
    /\ \E n \in RuleCalls :
           /\ GeneratorFailedAt(n)
           /\ \E i \in WritesFor(n) :
                  /\ wire[i].data = dispatches[n].packet
                  /\ wire[i].data #
                         Generate(dispatches[n].before[dispatches[n].idx].generator,
                                  dispatches[n].packet, LastEval(n).value, FALSE).packet
    /\ \E n \in RuleCalls : GeneratorFailedAt(n) /\ WritesFor(n) = {}

(***************************************************************************)
(* Rule.Match on its own: eval holds one evaluation of the rule rules[1]   *)
(* on the message buf.                                                     *)
(***************************************************************************)
Evaluated == eval # NotEvaluated

\* the transform of the evaluated rule
EvalTransform == rules[1].transform

\* the filter matched and extracted a value
FilterMatched ==
    /\ QuickMatch(rules[1].filter, HighNibble(buf[1]), LowNibble(buf[1]))
    /\ FilterMatch(rules[1].filter, buf).result = "Match"

FilterValue == FilterMatch(rules[1].filter, buf).value

\* the rule loop of a router that holds the evaluated rule and, after it, a
\* rule that matches everything
LoopAfterEval == ruleLoop(<<rules[1], ruleAll>>, 1, buf, eval.t, eval.in, <<>>)

\* C11: in LinearDrop mode a matched value outside [fromMin, fromMax], and a
\* value whose mapped result is outside [toMin, toMax], makes the rule return
\* NoMatch: the generator is not called, the packet is the one that came, and
\* the router's loop goes on to the next rule.
C11_LinearDropRejects ==
    (/\ Evaluated
     /\ FilterMatched
     /\ EvalTransform.mode = TransformModeLinearDrop
     /\ \/ FilterValue < EvalTransform.fromMin
        \/ FilterValue > EvalTransform.fromMax
        \/ LinearMap(EvalTransform, FilterValue, eval.in) < EvalTransform.toMin
        \/ LinearMap(EvalTransform, FilterValue, eval.in) > EvalTransform.toMax)
    => /\ eval.ev.res.Result = RuleMatchResultNoMatch
       /\ ~Called(eval.ev, "Generate")
       /\ eval.ev.res.MainPacket = buf
       /\ ~eval.ev.res.HasNoise
       /\ Len(LoopAfterEval.log) = 2
       /\ LoopAfterEval.idx = 2

\* the value 101 with fromMin = 0, fromMax = 100 was evaluated and rejected
C11_Witness ==
    /\ Evaluated
    /\ FilterMatched
    /\ EvalTransform.mode = TransformModeLinearDrop
    /\ EvalTransform.fromMin = 0
    /\ EvalTransform.fromMax = 100
    /\ FilterValue = 101
    /\ eval.ev.res.Result = RuleMatchResultNoMatch

\* the evaluation went through the transform of mode m with the bounds given
Transformed(m, fromMin, fromMax, toMin, toMax) ==
    /\ Evaluated
    /\ FilterMatched
    /\ EvalTransform.mode = m
    /\ EvalTransform.fromMin = fromMin
    /\ EvalTransform.fromMax = fromMax
    /\ EvalTransform.toMin = toMin
    /\ EvalTransform.toMax = toMax

\* C12: with fromMin = 0, fromMax = 127, toMin = 0, toMax = 127 the Linear
\* transform returns its input unchanged for every integer input 0 .. 127.
C12_LinearIdentity ==
    Transformed(TransformModeLinear, 0, 127, 0, 127)
    => /\ eval.ev.value = FilterValue
       /\ \A v \in 0 .. 127 : LinearMap(EvalTransform, v, eval.in) = v

\* the value 100 went through the identity transform and was generated as 100
C12_Witness ==
    /\ Transformed(TransformModeLinear, 0, 127, 0, 127)
    /\ FilterValue = 100
    /\ eval.ev.why = "generated"
    /\ eval.ev.res.MainPacket = <<176, 7, 100>>

\* a*value + b as the exact fraction num / df
ExactNum(t, value) ==
    (t.toMax - t.toMin) * (value - t.fromMin) + t.toMin * (t.fromMax - t.fromMin)

\* num / df, df > 0, rounded to the nearest integer
Round(num, df) == (2 * num + df) \div (2 * df)

\* C13: for a Linear transform with fromMax > fromMin and toMax > toMin the
\* transformed value is round(a*value + b), rounded to the nearest integer,
\* with a = (toMax-toMin)/(fromMax-fromMin) and b = toMin - a*fromMin;
\* Linear(0,127 to 0,100) maps 127 to 100 and 1 to 1.
C13_LinearRounds ==
    (/\ Evaluated
     /\ FilterMatched
     /\ EvalTransform.mode = TransformModeLinear
     /\ EvalTransform.fromMax > EvalTransform.fromMin
     /\ EvalTransform.toMax > EvalTransform.toMin)
    => eval.ev.value = Round(ExactNum(EvalTransform, FilterValue),
                             EvalTransform.fromMax - EvalTransform.fromMin)

\* the noise settings of the evaluated rule
EvalNoise == EvalTransform.noiseSettings

\* the random data byte of a noise packet: its last byte
NoiseValue(p) == p[Len(p)]

\* C14: a noise packet produced in Noise mode with MaxValue >= MinValue and
\* DelayMsMax >= DelayMsMin has its random data byte in MinValue .. MaxValue
\* and its delay in DelayMsMin .. DelayMsMax ms; where the two bounds of a
\* range are equal the result is that value.
C14_NoiseWithinBounds ==
    (/\ Evaluated
     /\ EvalTransform.mode = TransformModeNoise
     /\ eval.ev.res.HasNoise
     /\ EvalNoise.MaxValue >= EvalNoise.MinValue
     /\ EvalNoise.DelayMsMax >= EvalNoise.DelayMsMin)
    => /\ NoiseValue(eval.ev.res.NoisePacket) \in EvalNoise.MinValue .. EvalNoise.MaxValue
       /\ eval.ev.res.NoiseDelayMs \in EvalNoise.DelayMsMin .. EvalNoise.DelayMsMax
       /\ EvalNoise.MaxValue = EvalNoise.MinValue
            => NoiseValue(eval.ev.res.NoisePacket) = EvalNoise.MinValue
       /\ EvalNoise.DelayMsMax = EvalNoise.DelayMsMin
            => eval.ev.res.NoiseDelayMs = EvalNoise.DelayMsMin

\* MinValue = 10, MaxValue = 20, DelayMsMin = DelayMsMax = 5: a noise packet
\* with the value 13 and the delay 5 ms
C14_Witness ==
    /\ Evaluated
    /\ eval.ev.res.HasNoise
    /\ EvalNoise.MinValue = 10
    /\ EvalNoise.MaxValue = 20
    /\ EvalNoise.DelayMsMin = 5
    /\ EvalNoise.DelayMsMax = 5
    /\ NoiseValue(eval.ev.res.NoisePacket) = 13
    /\ eval.ev.res.NoiseDelayMs = 5

(***************************************************************************)
(* The router, passthrough and Cleanup.                                    *)
(***************************************************************************)
PassthroughCalls == {n \in 1 .. Len(dispatches) : dispatches[n].passthrough}

\* the writes of the message itself made for call n in passthrough mode
PassthroughWritesFor(n) == {i \in WritesFor(n) : wire[i].kind = "passthrough"}

\* C15: with passthrough enabled every dispatched message that passes the
\* rate-limit check is written to the destination byte for byte as it came,
\* no rule is evaluated and no rule's state changes.
C15_PassthroughVerbatim ==
    \A n \in PassthroughCalls :
        /\ dispatches[n].log = <<>>
        /\ RulesAfter(n) = dispatches[n].before
        /\ ~dispatches[n].limited
             => /\ Cardinality(PassthroughWritesFor(n)) = 1
                /\ \A i \in PassthroughWritesFor(n) :
                       wire[i].data = dispatches[n].packet
        /\ dispatches[n].limited => WritesFor(n) = {}

\* a Program Change went through a passthrough router as it came, and a
\* second message was held back by the limiter
C15_Witness ==
    /\ \E n \in PassthroughCalls :
           /\ ~dispatches[n].limited
           /\ dispatches[n].packet = <<192, 5>>
           /\ \E i \in PassthroughWritesFor(n) : wire[i].data = <<192, 5>>
    /\ \E n \in PassthroughCalls : dispatches[n].limited

\* the packets main's Cleanup has written, in the order of their Sends
CleanupWrites ==
    LET byMain(e) == e.by = "main" IN SelectSeq(wire, byMain)

\* C16: Cleanup writes the panic sequence for every channel 0 .. 15 in
\* ascending order, for each channel ch All Notes Off [0xB0|ch, 123, 0] and
\* then Reset All Controllers [0xB0|ch, 121, 0], 32 packets in all, whatever
\* the state of the rate limiter.
C16_CleanupPanicSequence ==
    cleanup = "done"
    => /\ Len(CleanupWrites) = 32
       /\ \A ch \in 0 .. 15 :
              /\ CleanupWrites[2 * ch + 1].data = <<176 + ch, 123, 0>>
              /\ CleanupWrites[2 * ch + 2].data = <<176 + ch, 121, 0>>

\* Cleanup has written its 32 packets less than sendLimit after the last
\* rate-limited send
C16_Witness ==
    /\ cleanup = "done"
    /\ Len(CleanupWrites) = 32
    /\ CleanupWrites[32].data = <<191, 121, 0>>
    /\ lastMIDIMsg # ZeroTime
    /\ withinSendLimit(lastMIDIMsg, now, sendLimit)

\* C17: a transform of a mode other than None whose bounds violate
\* fromMax > fromMin or toMax > toMin is rejected when the rule is built: no
\* rule of a router carries one, and no evaluation divides by
\* fromMax - fromMin = 0 or takes toMax - toMin with toMax < toMin.
C17_TransformBoundsValidated ==
    (/\ Evaluated
     /\ FilterMatched
     /\ EvalTransform.mode # TransformModeNone)
    => /\ EvalTransform.fromMax > EvalTransform.fromMin
       /\ EvalTransform.toMax > EvalTransform.toMin

\* C18: noise settings are validated when the rule is built, which fails
\* unless MaxValue <= 127, MaxValue >= MinValue and DelayMsMax >= DelayMsMin:
\* every rule of a router in Noise mode holds settings with these three.
C18_NoiseSettingsValidated ==
    (/\ Evaluated
     /\ FilterMatched
     /\ EvalTransform.mode = TransformModeNoise)
    => /\ EvalNoise.MaxValue <= 127
       /\ EvalNoise.MaxValue >= EvalNoise.MinValue
       /\ EvalNoise.DelayMsMax >= EvalNoise.DelayMsMin

\* the answer of the filter's QuickMatch on the type and the channel of the
\* status byte
QuickMatched == QuickMatch(rules[1].filter, HighNibble(buf[1]), LowNibble(buf[1]))

\* C19: if the filter's QuickMatch on the type and channel derived from the
\* status byte returns false, the filter's Match is not called for that rule
\* on that message and the rule returns NoMatch.
C19_QuickMatchGuardsMatch ==
    (Evaluated /\ ~QuickMatched)
    => /\ ~Called(eval.ev, "Match")
       /\ eval.ev.calls = <<"QuickMatch">>
       /\ eval.ev.res.Result = RuleMatchResultNoMatch

\* Control Change 7 of channel 2 came to a rule on channel 1: QuickMatch said
\* no where the filter's Match would have matched
C19_Witness ==
    /\ Evaluated
    /\ buf = <<177, 7, 5>>
    /\ ~QuickMatched
    /\ FilterMatch(rules[1].filter, buf).result = "Match"
    /\ eval.ev.res.Result = RuleMatchResultNoMatch

\* the evaluation changed lastValue or lastValueTs of the rule
LastValueChanged ==
    \/ eval.ev.rule.lastValue # rules[1].lastValue
    \/ eval.ev.rule.lastValueTs # rules[1].lastValueTs

\* C20: lastValue and lastValueTs of a rule change only in an evaluation that
\* passes the duplicate check: an evaluation that ends in NoMatch (QuickMatch
\* or filter reject, LinearDrop reject), in MatchNoInject from the filter or
\* in a duplicate drop leaves both as they were.
C20_LastValueFrame ==
    Evaluated
    => /\ eval.ev.res.Result \in {RuleMatchResultNoMatch, RuleMatchResultMatchNoInject}
            => ~LastValueChanged
       /\ eval.ev.why \in {"quick", "filter", "transformDrop", "noValue", "duplicate"}
            => ~LastValueChanged
       /\ LastValueChanged
            => /\ FilterMatched
               /\ ~isDuplicate(rules[1], eval.ev.value, eval.t)
               /\ eval.ev.rule.lastValue = eval.ev.value
               /\ eval.ev.rule.lastValueTs = eval.t

\* a duplicate was dropped one tick after the value was first seen, and the
\* window still starts at the first
C20_Witness ==
    /\ Evaluated
    /\ eval.ev.why = "duplicate"
    /\ eval.t = 1
    /\ rules[1].lastValueTs = 0
    /\ eval.ev.rule.lastValueTs = 0
    /\ eval.ev.res.Result = RuleMatchResultMatchNoInject

\* the evaluated rule is as rule.New and the setters left it
NewlyConstructed ==
    rules[1] \in {LoadRule(rc).rule : rc \in {c \in RuleConfigs : LoadRule(c).ok}}

\* C21: the first match of a newly constructed rule is never treated as a
\* duplicate, whatever the timeout and the transformed value: it passes the
\* duplicate check and goes on to the generator.  The initial lastValue is
\* 0xFFFF, outside 0 .. 16383.
C21_FirstMatchNoDuplicate ==
    (/\ Evaluated
     /\ NewlyConstructed
     /\ FilterMatched)
    => /\ rules[1].lastValue \notin 0 .. 16383
       /\ eval.ev.why # "duplicate"
       /\ eval.ev.why # "transformDrop" => Called(eval.ev, "Generate")
       /\ eval.ev.res.Result # RuleMatchResultMatchNoInject

\* a new rule with dropDuplicates matched a first message at time 0 and went
\* on to the generator
C21_Witness ==
    /\ Evaluated
    /\ NewlyConstructed
    /\ FilterMatched
    /\ rules[1].dropDuplicates
    /\ eval.t = 0
    /\ eval.ev.value = 0
    /\ eval.ev.why = "generated"

(***************************************************************************)
(* The noise scheduler.                                                    *)
(***************************************************************************)
\* the callback is in scheduleNoisePacket with a delay <= 0
SchedulingNow == ppc = "sched" /\ pcur.noise.delayMs <= 0

\* the callback is in scheduleNoisePacket with a delay > 0
SchedulingLater == ppc = "sched" /\ pcur.noise.delayMs > 0

\* the step of the callback that decides a noise packet with delay <= 0: it
\* drops it, or calls Send and goes on to the update, and starts no goroutine
\* and handles no further message meanwhile
DecidedNow ==
    (SchedulingNow /\ ppc' # ppc)
    => /\ dispatches' = dispatches
       /\ pending' = pending
       /\ Len(tasks') = Len(tasks)
       /\ IF withinSendLimit(lastMIDIMsg, now, sendLimit)
          THEN ppc' = "idle" /\ wire' = wire
          ELSE /\ ppc' = "nsend"
               /\ Len(wire') = Len(wire) + 1
               /\ wire'[Len(wire')].data = pcur.noise.packet

\* after the Send of a noise packet with delay <= 0 the callback assigns
\* lastMIDIMsg, and only then returns
UpdatedNow ==
    (ppc = "nsend" /\ ppc' # ppc)
    => /\ ppc' = "idle"
       /\ lastMIDIMsg' = now
       /\ dispatches' = dispatches
       /\ pending' = pending

\* with a delay > 0 the callback starts a goroutine and returns: nothing is
\* written and lastMIDIMsg is not assigned
DeferredLater ==
    (SchedulingLater /\ ppc' # ppc)
    => /\ ppc' = "idle"
       /\ wire' = wire
       /\ lastMIDIMsg' = lastMIDIMsg
       /\ Len(tasks') = Len(tasks) + 1
       /\ tasks'[Len(tasks')].pc = "sleep"
       /\ tasks'[Len(tasks')].packet = pcur.noise.packet

\* a goroutine whose sleep is over makes the same check; it drops the packet,
\* or calls Send and then assigns lastMIDIMsg
TaskDecides ==
    \A i \in 1 .. Len(tasks) :
        /\ (tasks[i].pc = "sleep" /\ tasks'[i].pc # "sleep")
           => /\ now >= tasks[i].wakeAt
              /\ IF withinSendLimit(lastMIDIMsg, now, sendLimit)
                 THEN tasks'[i].pc = "done" /\ wire' = wire
                 ELSE /\ tasks'[i].pc = "send"
                      /\ Len(wire') = Len(wire) + 1
                      /\ wire'[Len(wire')].data = tasks[i].packet
        /\ (tasks[i].pc = "send" /\ tasks'[i].pc # "send")
           => /\ tasks'[i].pc = "done"
              /\ lastMIDIMsg' = now

\* C22: a noise packet with delay <= 0 is decided on the calling path (check,
\* then Send and update) before the dispatch of the message returns; with
\* delay > 0 the dispatch returns without waiting, and the goroutine, when its
\* sleep is over, makes the same check, Send and update.
C22_NoiseScheduling ==
    [][DecidedNow /\ UpdatedNow /\ DeferredLater /\ TaskDecides]_vars

\* a goroutine still sleeps while the callback has handled a later message
C22_Witness ==
    \E i \in 1 .. Len(tasks) :
        /\ tasks[i].pc = "sleep"
        /\ tasks[i].delayMs > 0
        /\ Len(dispatches) > tasks[i].msg
        /\ ppc = "idle"

\* the goroutine i was started and its sleep ends within the time observed
Scheduled(i) ==
    /\ i <= Len(tasks)
    /\ tasks[i].wakeAt <= env.horizon

\* the goroutine i has returned, its packet written or dropped by the limiter
Completed(i) ==
    /\ i <= Len(tasks)
    /\ tasks[i].pc = "done"
    /\ tasks[i].outcome \in {"sent", "dropped"}

\* C23: every scheduled noise task with delay > 0 runs to completion: under
\* fair scheduling it fires and ends with its packet written or dropped by
\* the limiter; neither later dispatches nor Cleanup cancel it.
C23_NoiseTasksComplete ==
    \A i \in 1 .. MaxTasks : Scheduled(i) ~> Completed(i)

(***************************************************************************)
(* Order of the primary path.                                              *)
(***************************************************************************)
\* the writes of the messages themselves: main packets and passthrough
MainWrites == {i \in 1 .. Len(wire) : wire[i].kind \in {"primary", "passthrough"}}

\* a buffer comes when the callback has returned from the one before, and
\* its messages wait in the order they have in it
BufferArrives ==
    (pending' # pending /\ dispatches' = dispatches)
    => /\ pending = <<>>
       /\ \E b \in env.buffers : pending' = onPacketMessages(b)

\* handleSinglePacket is called for the first of the messages that wait
FirstHandledFirst ==
    dispatches' # dispatches
    => /\ pending # <<>>
       /\ dispatches' = Append(dispatches, dispatches'[Len(dispatches')])
       /\ dispatches'[Len(dispatches')].packet = Head(pending)
       /\ pending' = Tail(pending)

\* of two writes of main or passthrough packets the earlier is that of the
\* earlier message, and no message has two
MainWritesInOrder ==
    \A i \in MainWrites, j \in MainWrites : i < j => wire[i].msg < wire[j].msg

\* C24: primary outputs are never reordered: the messages of a buffer are
\* handled in the order they have in it, a buffer after the one before, and
\* of two messages that both have their main or passthrough packet written
\* the earlier one is written first.
C24_PrimaryInOrder ==
    /\ []MainWritesInOrder
    /\ [][BufferArrives /\ FirstHandledFirst]_vars

\* the Note On and the Program Change of one buffer were both written, the
\* Note On first
C24_Witness ==
    \E i \in MainWrites, j \in MainWrites :
        /\ i < j
        /\ wire[j].msg = wire[i].msg + 1
        /\ dispatches[wire[i].msg].packet = <<144, 60, 100>>
        /\ dispatches[wire[j].msg].packet = <<192, 5>>
        /\ dispatches[wire[i].msg].t = 0

(***************************************************************************)
(* PreventRunningStatus against mode None.                                 *)
(***************************************************************************)
\* the evaluated rule with the transform mode m
WithMode(r, m) == [r EXCEPT !.transform.mode = m]

\* the same evaluation made by the same rule in mode None
EvalAsNone == Match(WithMode(rules[1], TransformModeNone), buf, eval.t, eval.in)

\* rule r with the bookkeeping fields of rule q
WithBookkeeping(r, q) ==
    [r EXCEPT !.lastMsgType = q.lastMsgType, !.lastChannel = q.lastChannel,
              !.lastMsgCount = q.lastMsgCount]

\* C25: a rule in PreventRunningStatus mode returns the same outcome and the
\* same main packet, and updates lastValue and lastValueTs the same way, as
\* the same rule in mode None; it differs only in lastMsgType, lastChannel
\* and lastMsgCount, which change only on a MatchInject whose generator
\* succeeded.
C25_PreventRunStatusNoOp ==
    (Evaluated /\ EvalTransform.mode = TransformModePreventRunStatus)
    => /\ eval.ev.res = EvalAsNone.res
       /\ eval.ev.calls = EvalAsNone.calls
       /\ eval.ev.rule.lastValue = EvalAsNone.rule.lastValue
       /\ eval.ev.rule.lastValueTs = EvalAsNone.rule.lastValueTs
       /\ WithBookkeeping(WithMode(eval.ev.rule, TransformModeNone), rules[1])
             = EvalAsNone.rule
       /\ IF eval.ev.why = "generated"
          THEN /\ eval.ev.res.Result = RuleMatchResultMatchInject
               /\ eval.ev.rule.lastMsgCount = rules[1].lastMsgCount + 1
               /\ eval.ev.rule.lastMsgType = HighNibble(buf[1])
               /\ eval.ev.rule.lastChannel = LowNibble(buf[1])
          ELSE WithBookkeeping(eval.ev.rule, rules[1]) = eval.ev.rule

\* a rule in PreventRunningStatus mode generated its second message
C25_Witness ==
    /\ Evaluated
    /\ EvalTransform.mode = TransformModePreventRunStatus
    /\ eval.ev.why = "generated"
    /\ rules[1].lastMsgCount = 1
    /\ eval.ev.rule.lastMsgCount = 2
    /\ eval.ev.res.MainPacket = <<176, 7, 101>>

(***************************************************************************)
(* Failure of the transport's Send.                                        *)
(***************************************************************************)
\* the calls of Send that returned an error
FailedWrites == {i \in 1 .. Len(wire) : wire[i].failed}

\* whatever Send returned, the caller takes its next step: the callback and
\* a goroutine return from Send
CallersGoOn ==
    Alive
    => /\ ppc = "send" => ENABLED (PrimarySent \/ PassthroughSent)
       /\ ppc = "nsend" => ENABLED NoiseNowSent
       /\ \A i \in 1 .. Len(tasks) : tasks[i].pc = "send" => ENABLED TaskSent(i)

\* a packet whose Send failed is not sent again
NoRetry ==
    \A i \in FailedWrites :
        \A j \in 1 .. Len(wire) :
            (j # i /\ wire[j].msg = wire[i].msg /\ wire[j].kind # "panic")
            => wire[j].kind # wire[i].kind

\* every call of handleSinglePacket with rules is the rule loop on the rules
\* as they were, and the limiter's decision on its MatchInject
SameSteps ==
    \A n \in RuleCalls :
        LET d == dispatches[n]
            ev == ruleLoop(d.before, 1, d.packet, d.t, d.in, <<>>)
        IN  /\ d.log = ev.log
            /\ d.Result = ev.res.Result
            /\ d.MainPacket = ev.res.MainPacket
            /\ RulesAfter(n) = ev.rules
            /\ d.limited => d.Result = RuleMatchResultMatchInject
            /\ Cardinality(PrimaryWritesFor(n))
                 = IF d.Result = RuleMatchResultMatchInject /\ ~d.limited THEN 1 ELSE 0

\* C26: a failure of the transport's Send does not stop the router: the
\* packet is dropped, not sent again, and every later message goes through
\* the same rule evaluation and rate-limit steps.
C26_SendFailureGoesOn ==
    /\ CallersGoOn
    /\ NoRetry
    /\ SameSteps
    /\ \A n \in PassthroughCalls :
           Cardinality(PassthroughWritesFor(n)) = IF dispatches[n].limited THEN 0 ELSE 1

\* the Send of a main packet failed, and the next message was evaluated and
\* its main packet sent
C26_Witness ==
    \E i \in FailedWrites, j \in 1 .. Len(wire) :
        /\ wire[i].kind = "primary"
        /\ wire[i].updated
        /\ wire[j].kind = "primary"
        /\ wire[j].msg = wire[i].msg + 1
        /\ ~wire[j].failed
        /\ wire[j].updated

(***************************************************************************)
(* Noise packets and the rate limiter.                                     *)
(***************************************************************************)
NoiseWrites == {i \in 1 .. Len(wire) : wire[i].kind = "noise"}

\* the delay a written noise packet was scheduled with: that of its
\* goroutine, and 0 on the calling path
ScheduledDelayMs(i) == IF wire[i].by = "task" THEN tasks[wire[i].id].delayMs ELSE 0

\* the Send of the main packet of the match noise packet i belongs to
MainWriteOf(i) ==
    {j \in 1 .. Len(wire) : wire[j].kind = "primary" /\ wire[j].msg = wire[i].msg}

\* the statement as it stands: only a delay above sendLimit is written
C27_NoiseOnlyAboveSendLimit ==
    \A i \in NoiseWrites : ScheduledDelayMs(i) > sendLimit * MsPerTick

\* C27: a noise packet is written only if more than sendLimit has passed,
\* when its task checks the limiter, since lastMIDIMsg, which is then at
\* least the time of the main packet's Send: a noise packet is written more
\* than sendLimit after its main packet, whatever its delay, and never on a
\* clock that has not advanced since.
C27_NoiseOnlyAfterSendLimit ==
    \A i \in NoiseWrites :
        /\ wire[i].checked
        /\ wire[i].t - wire[i].seen > sendLimit
        /\ \A j \in MainWriteOf(i) :
               /\ j < i
               /\ wire[j].updated
               /\ wire[i].seen >= wire[j].t
               /\ wire[i].t - wire[j].t > sendLimit

\* a goroutine has written a noise packet whose delay is not above sendLimit:
\* its sleep lasted longer than the delay
C27_Witness ==
    \E i \in NoiseWrites :
        /\ wire[i].by = "task"
        /\ ScheduledDelayMs(i) > 0
        /\ ScheduledDelayMs(i) <= sendLimit * MsPerTick
        /\ MainWriteOf(i) # {}
        /\ wire[i].updated

(***************************************************************************)
(* A main packet dropped by the rate limiter.                              *)
(***************************************************************************)
\* the calls of handleSinglePacket whose MatchInject the limiter dropped
LimitedCalls == {n \in RuleCalls : dispatches[n].limited}

\* the result the rule loop gave call n
ResultOf(n) ==
    ruleLoop(dispatches[n].before, 1, dispatches[n].packet, dispatches[n].t,
             dispatches[n].in, <<>>).res

DroppedAtOnce ==
    \A n \in LimitedCalls :
        /\ dispatches[n].Result = RuleMatchResultMatchInject
        /\ WritesFor(n) = {}
        /\ \A i \in 1 .. Len(tasks) : tasks[i].msg # n
        /\ Len(dispatches[n].log) = dispatches[n].idx
        /\ \A k \in 1 .. Len(rules) :
               k > dispatches[n].idx => RulesAfter(n)[k] = dispatches[n].before[k]

NoiseAfterMain == \A i \in NoiseWrites : \E j \in MainWriteOf(i) : j < i

\* the step of a call the limiter drops: handleSinglePacket returns
LimitedReturns ==
    (/\ Len(dispatches') = Len(dispatches) + 1
     /\ dispatches'[Len(dispatches')].limited)
    => /\ lastMIDIMsg' = lastMIDIMsg
       /\ wire' = wire
       /\ tasks' = tasks
       /\ ppc' = "idle"

\* C28: when a rule returns MatchInject and the rate limiter drops the main
\* packet, the dispatch of the message ends at once: nothing is written for
\* it, its noise packet is never scheduled, no later rule is evaluated and
\* lastMIDIMsg is unchanged; so every noise write comes after the write of
\* the main packet of the same match.
C28_LimitedInjectEndsDispatch ==
    /\ [](DroppedAtOnce /\ NoiseAfterMain)
    /\ [][LimitedReturns]_vars

\* the limiter dropped a main packet that came with a noise packet, from a
\* rule that is not the last, and the next message has been handled
C28_Witness ==
    \E n \in LimitedCalls :
        /\ ResultOf(n).HasNoise
        /\ dispatches[n].idx < Len(rules)
        /\ n < Len(dispatches)
        /\ ppc = "idle"

(***************************************************************************)
(* C29: in Noise mode a noise packet is returned only together with a      *)
(* freshly generated main packet: a match dropped as a duplicate           *)
(* (MatchNoInject) and a match whose generator failed (the original packet *)
(* is injected) carry no noise packet, and the router schedules no noise   *)
(* for such a message.                                                     *)
(***************************************************************************)
C29_NoiseOnlyWithGeneratedPacket ==
    (Evaluated /\ EvalTransform.mode = TransformModeNoise)
    => LET res == eval.ev.res
       IN  /\ res.HasNoise
               => /\ res.Result = RuleMatchResultMatchInject
                  /\ eval.ev.why = "generated"
                  /\ ~eval.in.genErr
                  /\ res.MainPacket
                       = Generate(rules[1].generator, buf, eval.ev.value, FALSE).packet
           /\ res.Result = RuleMatchResultMatchNoInject => ~res.HasNoise
           /\ eval.ev.why = "duplicate"
               => res.Result = RuleMatchResultMatchNoInject /\ res.MainPacket = buf
           /\ eval.ev.why = "generatorError"
               => /\ ~res.HasNoise
                  /\ res.Result = RuleMatchResultMatchInject
                  /\ res.MainPacket = buf
           /\ eval.ev.why \in {"duplicate", "generatorError"}
               => /\ LoopAfterEval.res = res
                  /\ ~LoopAfterEval.res.HasNoise
           /\ (FilterMatched /\ eval.ev.why = "generated") => res.HasNoise

\* the generator of a Noise rule failed on a value that is no duplicate
C29_Witness ==
    /\ Evaluated
    /\ EvalTransform.mode = TransformModeNoise
    /\ eval.ev.why = "generatorError"
    /\ eval.ev.res.MainPacket = buf
    /\ ~isDuplicate(rules[1], eval.ev.value, eval.t)

(***************************************************************************)
(* A Stop message in passthrough mode.                                     *)
(***************************************************************************)
\* the packets the callback has written, in the order of their Sends
CallbackWrites ==
    LET byCallback(e) == e.by = "cb" IN SelectSeq(wire, byCallback)

IsStop(packet) == Len(packet) > 0 /\ packet[1] = 252

\* the Stop messages the callback has written and set lastMIDIMsg for
StopsDone ==
    {k \in 1 .. Len(CallbackWrites) :
        /\ CallbackWrites[k].kind = "passthrough"
        /\ IsStop(CallbackWrites[k].data)
        /\ CallbackWrites[k].updated}

CallbackPanicWrites ==
    {k \in 1 .. Len(CallbackWrites) : CallbackWrites[k].kind = "panic"}

\* C30: in passthrough mode a Stop message (0xFC) that passes the rate-limit
\* check is written first and then followed by the 32 packets of the
\* all-notes-off / reset-controllers sequence, written without a rate-limit
\* check; lastMIDIMsg is set only after the whole sequence; a Stop message
\* the limiter drops triggers no panic sequence.
C30_PassthroughStopPanic ==
    /\ \A k \in StopsDone :
           /\ CallbackWrites[k].checked
           /\ CallbackWrites[k].t - CallbackWrites[k].seen > sendLimit
           /\ Len(CallbackWrites) >= k + 2 * NumChannels
           /\ \A m \in 0 .. (2 * NumChannels - 1) :
                  /\ CallbackWrites[k + 1 + m].kind = "panic"
                  /\ CallbackWrites[k + 1 + m].data = panicPacket(m)
                  /\ ~CallbackWrites[k + 1 + m].checked
                  /\ CallbackWrites[k + 1 + m].t >= CallbackWrites[k].t
                  /\ lastMIDIMsg >= CallbackWrites[k + 1 + m].t
    /\ Cardinality(CallbackPanicWrites)
         = 2 * NumChannels * Cardinality(StopsDone) + (IF ppc = "panic" THEN 1 ELSE 0)
    /\ ppc = "panic"
         => /\ IsStop(wire[pcur.w].data)
            /\ ~wire[pcur.w].updated
            /\ lastMIDIMsg <= wire[pcur.w].seen
    /\ \A n \in PassthroughCalls :
           (IsStop(dispatches[n].packet) /\ dispatches[n].limited) => WritesFor(n) = {}

\* a Stop message was written with its panic sequence after it, and a second
\* Stop message was dropped by the limiter
C30_Witness ==
    /\ ppc = "idle"
    /\ Cardinality(StopsDone) = 1
    /\ Cardinality(CallbackPanicWrites) = 2 * NumChannels
    /\ \E n \in PassthroughCalls : IsStop(dispatches[n].packet) /\ dispatches[n].limited

(***************************************************************************)
(* Termination of the framing loop.                                        *)
(***************************************************************************)
Bytes == 0 .. 255

\* splitMIDIData has returned
SplitReturned == split # NotSplit /\ ppc = "idle"

LengthInTable == \A b \in Bytes : midiMessageLength(b) \in {1, 2, 3}

\* the index stays within the buffer, and no message is empty
SplitWithinBuffer ==
    split # NotSplit
    => /\ split.stop \in 0 .. Len(buf)
       /\ Len(split.messages) <= split.stop
       /\ Len(split.messages) <= Len(buf)
       /\ \A k \in 1 .. Len(split.messages) : Len(split.messages[k]) >= 1
       /\ SplitReturned => split = splitMIDIData(buf)

\* an iteration consumes at least one byte or ends the loop
ConsumesOrStops ==
    ppc = "split" => (split'.stop > split.stop \/ ppc' = "idle")

\* C31: the framing loop terminates for every byte buffer: midiMessageLength
\* is 1, 2 or 3 for every byte 0x00..0xFF, so each iteration of splitMIDIData
\* consumes at least one byte or stops, and the messages are at most as many
\* as the bytes of the buffer.
C31_FramingTerminates ==
    /\ [](LengthInTable /\ SplitWithinBuffer)
    /\ [][ConsumesOrStops]_vars
    /\ <>SplitReturned

\* a buffer of data bytes and 0xF0 bytes, none of them the first of a longer
\* message, has given as many messages as it has bytes
C31_Witness ==
    /\ SplitReturned
    /\ Len(buf) = 4
    /\ buf[1] < 128
    /\ \E k \in 2 .. Len(buf) : buf[k] = 240
    /\ Len(split.messages) = Len(buf)

(***************************************************************************)
(* C32: onPacket dispatches a received buffer exactly once and unsplit     *)
(* when its first byte is 0xF0, whatever its length, and when it has 3     *)
(* bytes or fewer, even if by the length table it holds more than one      *)
(* message ([0xF8, 0xF8], [0xC0, 0x05, 0xF8]); only a buffer longer than 3 *)
(* bytes that does not start with 0xF0 is split, and each of its messages  *)
(* is dispatched once, in buffer order.  The messages handled and waiting  *)
(* are, in order, those of the buffers received.                           *)
(***************************************************************************)
C32_OnPacketDispatch ==
    LET unsplit(data) == data[1] = 240 \/ Len(data) <= 3
        expected(data) == IF unsplit(data) THEN <<data>> ELSE splitMIDIData(data).messages
        handled == [n \in 1 .. Len(dispatches) |-> dispatches[n].packet]
    IN  /\ \E bs \in SeqsOf(env.buffers, received) :
               handled \o pending = Concat([k \in 1 .. received |-> expected(bs[k])])
        /\ \A n \in 1 .. Len(dispatches) :
               \E data \in env.buffers :
                   \/ unsplit(data) /\ handled[n] = data
                   \/ /\ ~unsplit(data)
                      /\ \E k \in 1 .. Len(splitMIDIData(data).messages) :
                             handled[n] = splitMIDIData(data).messages[k]

\* a three-byte buffer that holds two messages and a five-byte SysEx buffer
\* were each dispatched once as they came, and a five-byte buffer was
\* dispatched as its two messages
C32_Witness ==
    /\ ppc = "idle"
    /\ pending = <<>>
    /\ received = 3
    /\ Len(dispatches) = 4
    /\ dispatches[1].packet = <<192, 5, 248>>
    /\ dispatches[2].packet = <<240, 1, 2, 3, 247>>
    /\ dispatches[3].packet = <<144, 60, 100>>
    /\ dispatches[4].packet = <<192, 5>>

=============================================================================
